---- MODULE Spec2Model ----
(***************************************************************************)
(* Layer synchronisation engine of go-spacemesh (package sync).            *)
(*                                                                         *)
(*   SpecQueue  - the dependency queue (blockQueue) of                     *)
(*                sync/validation_queue.go: addDependencies, handleBlock,  *)
(*                handleBlockDependencies, finishBlockCallback,            *)
(*                updateDependencies, removefromDepMaps.                   *)
(*   SpecItems  - the item queues' HandleItems (fetch queue).              *)
(*   SpecGossip - the Syncer's gossip status and await channel, driven by  *)
(*                synchronise / handleWeaklySynced / handleNotSynced /     *)
(*                gossipSyncForOneFullLayer.                               *)
(***************************************************************************)
EXTENDS Integers, Sequences, FiniteSets, TLC

(***************************************************************************)
(* Bounds                                                                  *)
(***************************************************************************)
\* number of distinct block hashes
NumBlocks == 3
\* number of client jobs (layer jobs registered by syncLayer)
NumClients == 1
\* longest child list a client passes to addDependencies
MaxChildren == 2
\* most view edges a fetched block carries
MaxEdges == 2
\* the clock stops ticking at this layer
MaxLayer == 4
\* number of channels make(chan struct{}) can hand out
MaxChans == 3
\* the last layer of the genesis epochs
LastGenesisLayer == 1
\* number of item ids
NumItems == 2
\* number of peers
NumPeers == 2
\* number of block ids a layer's id list is drawn from
NumLayerBlocks == 2
\* longest block-id list a peer sends
MaxIdsLen == 2
\* most synchronise goroutines spawned and not yet at TryLock
MaxCalls == 1
\* number of transaction ids and of ATX ids a block draws from
NumTxIds == 2
NumAtxIds == 2
\* longest list of tx ids, and longest active set, of a block
MaxListLen == 2
\* number of goroutines that call a blocking operation of the syncer
NumWaiters == 2
\* number of concurrent callers of HandleItems
NumCallers == 2
\* number of calls of Start, of ForceSync and of Close
NumStarts == 2
NumForceSyncs == 1
NumCloses == 2
\* longest id list passed to GetBlocks
MaxGetBlocks == 1

Blocks == 1..NumBlocks
Clients == 1..NumClients

(***************************************************************************)
(* Generic map helpers (Go maps as functions with a dynamic domain)        *)
(***************************************************************************)
Range(s) == {s[i] : i \in DOMAIN s}

Put(m, k, v) == [x \in (DOMAIN m) \cup {k} |-> IF x = k THEN v ELSE m[x]]

Delete(m, k) == [x \in (DOMAIN m) \ {k} |-> m[x]]

EmptyMap == [x \in {} |-> {}]

RECURSIVE SetToSeq(_)
SetToSeq(S) ==
  IF S = {} THEN <<>>
  ELSE LET m == CHOOSE x \in S : \A y \in S : x <= y
       IN <<m>> \o SetToSeq(S \ {m})

SeqsUpTo(S, n) == UNION {[1..k -> S] : k \in 0..n}

(***************************************************************************)
(* Job identifiers.  The maps callbacks and depMap are keyed by            *)
(* interface{}: a key is a (dynamic type, value) pair, and keys of         *)
(* different dynamic types are never equal.                                *)
(***************************************************************************)
LayerJob(l) == <<"LayerID", l>>
BlockJob(b) == <<"BlockID", b>>
HashKey(h) == <<"Hash32", h>>

Jobs == {LayerJob(c) : c \in Clients} \cup {BlockJob(b) : b \in Blocks}

\* id.AsHash32() of a job that is a types.BlockID
AsHash32(job) == job[2]

IsBlockJob(job) == job[1] = "BlockID"

\* the completion callbacks handed to addDependencies
LayerCallback(c) == [kind |-> "layer", id |-> c]
GetBlocksCallback(c) == [kind |-> "getblocks", id |-> c]
FinishCallback(b) == [kind |-> "finish", id |-> b]

VARIABLES
  callbacks,      \* blockQueue.callbacks: job -> callback
  depMap,         \* blockQueue.depMap: job -> set of outstanding hashes
  reverseDepMap,  \* blockQueue.reverseDepMap: hash -> sequence of jobs
  visited,        \* blockQueue.visited: set of hashes
  queue,          \* fetchQueue.queue: batches waiting for the fetch workers
  stored,         \* the mesh block store (GetBlock / AddBlockWithTxs)
  blockView,      \* ViewEdges of each block whose content is known
  known,          \* the blocks fetched so far (a hash fixes the content)
  cpc,            \* per client: position inside addDependencies
  children,       \* per client: the child list passed to addDependencies
  cdeps,          \* per client: the local variable dependencys
  wpc,            \* fetch-queue worker: position inside handleBlock
  batch,          \* worker: ids of the fetch job still to be handled
  wdeps,          \* worker: dependencys of the block being handled
  hist,           \* observation: per job, the callback invocations so far
  anyFail,        \* observation: some fetch, validation or finish step failed
  cbFailed,       \* observation: the blocks whose finish callback returned an error
  settled,        \* observation: hashes relaxed and not referenced since
  orphans         \* observation: blocks admitted while a view-edge parent was not stored

qvars == <<callbacks, depMap, reverseDepMap, visited, queue, stored, blockView,
           known, cpc, children, cdeps, wpc, batch, wdeps, hist, anyFail, settled,
           orphans, cbFailed>>

VARIABLES
  gossipSynced,   \* Syncer.gossipSynced
  awaitCh,        \* Syncer.awaitCh: the channel Await() returns
  closedChs,      \* the channels that have been closed
  nextCh,         \* the next channel make(chan struct{}) returns
  oldChs,         \* observation: the channels awaitCh held before
  doubleClose,    \* observation: close() was called on a closed channel
  spc,            \* position of the goroutine running synchronise
  current,        \* ticker.GetCurrentLayer()
  processed,      \* Mesh.ProcessedLayer()
  latest,         \* Mesh.LatestLayer()
  csl,            \* the local currentSyncLayer
  flayer,         \* gossipSyncForOneFullLayer: the layer of the first tick
  tickCh,         \* the LayerTimer obtained from ticker.Subscribe()
  subscribed,     \* the LayerTimer is registered with the ticker
  exitClosed,     \* Syncer.exit has been closed
  panicked,       \* s.Panic was called
  passTrace       \* observation: the statuses set by the running handleNotSynced

svars == <<gossipSynced, awaitCh, closedChs, nextCh, oldChs, doubleClose, spc,
           current, processed, latest, csl, flayer, tickCh, subscribed,
           exitClosed, panicked, passTrace>>

VARIABLES
  ipending,       \* item queue: id -> the callers waiting for the id
  ibatch,         \* item queue: the ids of the next fetch batch
  inflight,       \* the ids a fetch worker has requested from the network
  istore,         \* the ids found in the local stores
  waitFor,        \* caller -> the ids its HandleItems call still waits for
  got,            \* caller -> id -> the result its call has for the id
  reqs,           \* observation: id -> requests issued since the id became pending
  delivered       \* observation: id -> the results of the id's last completion

ivars == <<ipending, ibatch, inflight, istore, waitFor, got, reqs, delivered>>

VARIABLES
  cycStart,       \* observation: how the last synchronise call found the node
  cycEnd          \* observation: the state the last synchronise call returned in

ovars == <<cycStart, cycEnd>>

VARIABLES
  lastFetch       \* observation: the getLayerFromNeighbors call of
                  \* handleNotSynced made by the step just taken, if any

fvars == <<lastFetch>>

VARIABLES
  fpc,            \* fetchLayerBlockIds: position of the caller
  fm,             \* the map m from fetchLayerHashes: hash -> peers
  fleft,          \* the hashes of m the range loop has not visited yet
  fh,             \* the hash h of the current iteration
  fpeers,         \* the peers of h not asked yet
  fids,           \* fetchLayerBlockIds: ids (idSet is the set of its elements)
  ferr,           \* the error returned
  fasked,         \* observation: the <<hash, peer>> requests sent
  facc,           \* observation: the replies whose ids were taken
  ftaken,         \* observation: the ids of the replies taken
  fdup            \* observation: an id was sent that was in idSet already

lvars == <<fpc, fm, fleft, fh, fpeers, fids, ferr, fasked, facc, ftaken, fdup>>

VARIABLES
  syncLock,       \* Syncer.syncLock: TRUE while it is held
  calls,          \* synchronise goroutines spawned by run() that have not
                  \* reached TryLock yet
  overlap,        \* observation: a synchronise body began while another
                  \* one was in progress
  dropped         \* observation: the step just taken was a synchronise call
                  \* that failed TryLock

kvars == <<syncLock, calls, overlap, dropped>>

VARIABLES
  AlwaysListen    \* Configuration.AlwaysListen

cvars == <<AlwaysListen>>

VARIABLES
  wop,            \* waiter -> the blocking operation it called
  wst,            \* waiter -> "idle", "blocked" or "returned"
  wch,            \* waiter -> content of the channel the operation waits on
  wres            \* waiter -> what the operation returned

wvars == <<wop, wst, wch, wres>>

VARIABLES
  vblk,           \* the block handed to the validation
  vfast,          \* what fastValidation returned for it, "none" before
  vsyn,           \* what blockSyntacticValidation returned for it, "none" before
  vsteps          \* observation: the steps blockSyntacticValidation ran, in order

bvars == <<vblk, vfast, vsyn, vsteps>>

VARIABLES
  validation      \* observation: the layer validated by the step just taken,
                  \* with validatingLayer and the state of validatingLayerMutex
                  \* during the call of ValidateLayer

nvars == <<validation>>

VARIABLES
  awaitRead       \* observation: the last call of Await, the channel it read
                  \* from s.awaitCh and how it held gossipLock while reading

avars == <<awaitRead>>

VARIABLES
  gpc             \* the caller of GetBlocks: "idle" before the call, "registered"
                  \* once its addDependencies has returned

gvars == <<gpc>>

VARIABLES
  startLock,      \* Syncer.startLock is held
  forceSyncClosed,\* close(s.forceSync) was executed
  runLoops,       \* the number of goroutines inside run()
  stpc,           \* per caller of Start: position inside Start
  fspc,           \* per caller of ForceSync: position inside ForceSync
  clpc,           \* per caller of Close: position inside Close
  crash,          \* the run-time panic that ended the process, "none" before
  lateRun,        \* observation: a run loop was launched after close(s.exit)
  lateSync        \* observation: run launched a synchronise after close(s.exit)

rvars == <<startLock, forceSyncClosed, runLoops, stpc, fspc, clpc, crash, lateRun,
           lateSync>>

vars == <<qvars, svars, ivars, ovars, fvars, lvars, kvars, cvars, wvars, bvars,
          nvars, avars, gvars, rvars>>

\* what the actions of one component leave unchanged in the others
queueRest == <<svars, ivars, ovars, fvars, lvars, kvars, cvars, wvars, bvars, nvars,
               avars, gvars, rvars>>
itemsRest == <<qvars, svars, ovars, fvars, lvars, kvars, cvars, wvars, bvars, nvars,
               avars, gvars, rvars>>
syncRest == <<qvars, ivars, lvars, cvars, wvars, bvars, avars, gvars, rvars>>
waitRest == <<qvars, ivars, lvars, cvars, ovars, fvars, kvars, bvars, nvars,
              avars, gvars, rvars>>
fetchRest == <<qvars, svars, ivars, ovars, fvars, kvars, cvars, wvars, bvars, nvars,
               avars, gvars, rvars>>
validRest == <<qvars, svars, ivars, ovars, fvars, lvars, kvars, cvars, wvars, nvars,
               avars, gvars, rvars>>

(***************************************************************************)
(* blockQueue                                                              *)
(***************************************************************************)
\* inQueue without the look at reverseDepMap
inQueueVisitedOnly(rev, vis, id) == id \in vis

\* func (vq *blockQueue) inQueue
inQueue(rev, vis, id) == id \in DOMAIN rev \/ id \in vis

\* the loop of addDependencies over blks, run under vq.Lock()
RECURSIVE AddLoop(_, _, _, _, _, _, _)
AddLoop(rev, vis, st, jobId, blks, deps, push) ==
  IF blks = <<>> THEN [rev |-> rev, deps |-> deps, push |-> push]
  ELSE LET bid == Head(blks)
           reg == Put(rev, bid,
                      Append(IF bid \in DOMAIN rev THEN rev[bid] ELSE <<>>, jobId))
       IN IF inQueue(rev, vis, bid)
          THEN AddLoop(reg, vis, st, jobId, Tail(blks), deps \cup {bid}, push)
          ELSE IF bid \notin st
               THEN AddLoop(reg, vis, st, jobId, Tail(blks), deps \cup {bid},
                            Append(push, bid))
               ELSE AddLoop(rev, vis, st, jobId, Tail(blks), deps, push)

\* fetchQueue.addToPending: the ids become one batch of the fetch queue
AddToPending(q, ids) == IF ids = <<>> THEN q ELSE Append(q, ids)

\* children of a job, as registered
ChildrenOf(job) ==
  IF IsBlockJob(job)
  THEN blockView[job[2]]
  ELSE Range(children[job[2]])

\* nothing observed yet for a job
NoHist == [n |-> 0, t |-> FALSE, f |-> FALSE, early |-> FALSE, ooo |-> FALSE,
           sawFalse |-> FALSE, badTrue |-> FALSE, locked |-> FALSE]

\* the bookkeeping of one callback invocation
Note(h, job, res, early) ==
  [h EXCEPT ![job] =
     [n |-> IF @.n < 2 THEN @.n + 1 ELSE 2,
      t |-> @.t \/ res,
      f |-> @.f \/ ~res,
      early |-> @.early \/ early,
      ooo |-> @.ooo \/ (\E c \in ChildrenOf(job) : h[BlockJob(c)].n = 0),
      sawFalse |-> @.sawFalse,
      badTrue |-> @.badTrue \/ (res /\ @.sawFalse),
      locked |-> @.locked]]

\* a dependency of job resolved with outcome valid
NoteDep(h, job, valid) ==
  IF job \in DOMAIN h
  THEN [h EXCEPT ![job].sawFalse = @ \/ ~valid]
  ELSE h

\* One invocation of a stored callback with outcome res, while hash cur is
\* being relaxed.  fail: the blocks whose finish callback returns an error
\* (DataAvailabilty, validateVotes or AddBlockWithTxs) in this step.
\* q is the record of the queue's maps, the store and the observations.
RunCallback(q, job, res, cur, fail) ==
  LET cbk == q.cb[job]
      isFinish == cbk.kind = "finish"
      err == isFinish /\ res /\ cbk.id \in fail
      admit == isFinish /\ res /\ ~err
      early == \E h \in (DOMAIN q.rev) \ {cur} : job \in Range(q.rev[h])
      target == IF isFinish THEN BlockJob(cbk.id) ELSE LayerJob(cbk.id)
  IN [q |-> [q EXCEPT !.st = IF admit THEN @ \cup {cbk.id} ELSE @,
                      \* inside removefromDepMaps (cur is the hash being
                      \* relaxed) updateDependencies holds vq.Lock()
                      \* hist follows the callbacks of syncLayer and of the worker
                      !.h = IF cbk.kind = "getblocks" THEN @
                            ELSE [Note(q.h, target, res, early)
                                    EXCEPT ![target].locked = @ \/ (cur \in Blocks)],
                      !.af = @ \/ err,
                      !.cbf = IF err THEN @ \cup {cbk.id} ELSE @,
                      !.orph = IF admit /\ ~(blockView[cbk.id] \subseteq q.st)
                               THEN @ \cup {cbk.id} ELSE @],
      err |-> err]

\* func (vq *blockQueue) removefromDepMaps: the loop over reverseDepMap[block]
RECURSIVE RemoveLoop(_, _, _, _, _, _)
RemoveLoop(q, waiters, block, valid, done, fail) ==
  IF waiters = <<>>
  THEN [q |-> [q EXCEPT !.rev = Delete(@, block),
                        !.settled = @ \cup {block}],
        done |-> done]
  ELSE LET dep == Head(waiters)
           rest == Tail(waiters)
           \* delete(vq.depMap[dep], block); a missing entry is a nil map
           left == IF dep \in DOMAIN q.dep THEN q.dep[dep] \ {block} ELSE {}
           q0 == [q EXCEPT !.h = NoteDep(@, dep, valid)]
       IN IF left # {}
          THEN RemoveLoop([q0 EXCEPT !.dep = Put(@, dep, left)],
                          rest, block, valid, done, fail)
          ELSE LET q1 == [q0 EXCEPT !.dep = Delete(@, dep)]
               IN IF dep \notin DOMAIN q1.cb
                  THEN RemoveLoop(q1, rest, block, valid, done, fail)
                  ELSE LET r == RunCallback(q1, dep, valid, block, fail)
                       IN IF r.err
                          THEN RemoveLoop(r.q, rest, block, valid, done, fail)
                          ELSE RemoveLoop([r.q EXCEPT !.cb = Delete(@, dep)],
                                          rest, block, valid,
                                          IF IsBlockJob(dep)
                                          THEN Append(done, AsHash32(dep))
                                          ELSE done,
                                          fail)

removefromDepMaps(q, block, valid, doneBlocks, fail) ==
  RemoveLoop(q, IF block \in DOMAIN q.rev THEN q.rev[block] ELSE <<>>,
             block, valid, doneBlocks, fail)

\* the for-loop of updateDependencies over doneQueue
RECURSIVE Drain(_, _, _, _)
Drain(q, doneQueue, valid, fail) ==
  IF doneQueue = <<>> THEN q
  ELSE LET r == removefromDepMaps(q, Head(doneQueue), valid, Tail(doneQueue), fail)
       IN Drain(r.q, r.done, valid, fail)

\* func (vq *blockQueue) updateDependencies.  block is a types.Hash32, so the
\* three deletes use a Hash32 key.
updateDependencies(q, block, valid, fail) ==
  LET q1 == [q EXCEPT !.dep = Delete(@, HashKey(block)),
                      !.cb = Delete(@, HashKey(block)),
                      !.vis = @ \ {block}]
      r == removefromDepMaps(q1, block, valid, <<>>, fail)
  IN Drain(r.q, r.done, valid, fail)

\* the queue's maps, the store and the observations as one record
QRec == [cb |-> callbacks, dep |-> depMap, rev |-> reverseDepMap,
         vis |-> visited, st |-> stored, h |-> hist, af |-> anyFail,
         settled |-> settled, orph |-> orphans, cbf |-> cbFailed]

SetQ(q) ==
  /\ callbacks' = q.cb
  /\ depMap' = q.dep
  /\ reverseDepMap' = q.rev
  /\ visited' = q.vis
  /\ stored' = q.st
  /\ hist' = q.h
  /\ anyFail' = q.af
  /\ settled' = q.settled
  /\ orphans' = q.orph
  /\ cbFailed' = q.cbf

(***************************************************************************)
(* Clients: syncLayer calling addDependencies(layerID, blockIds, foo)      *)
(***************************************************************************)
ChildLists == SeqsUpTo(Blocks, MaxChildren)

\* addDependencies, from vq.Lock() to vq.addToPending(idsToPush)
ClientAddLocked(c) ==
  /\ UNCHANGED queueRest
  /\ cpc[c] = "idle"
  /\ \E blks \in ChildLists :
       LET r == AddLoop(reverseDepMap, visited, stored, LayerJob(c), blks, {}, <<>>)
       IN /\ callbacks' = Put(callbacks, LayerJob(c), LayerCallback(c))
          /\ reverseDepMap' = r.rev
          /\ queue' = AddToPending(queue, r.push)
          /\ settled' = settled \ r.deps
          /\ children' = [children EXCEPT ![c] = blks]
          /\ cdeps' = [cdeps EXCEPT ![c] = r.deps]
  /\ cpc' = [cpc EXCEPT ![c] = "unlocked"]
  /\ UNCHANGED <<depMap, visited, stored, blockView, known, wpc, batch, wdeps,
                 hist, anyFail, cbFailed, orphans>>

\* addDependencies, the rest: finishCallback(true) when nothing is missing,
\* otherwise vq.depMap[jobId] = dependencys
ClientAddStore(c) ==
  /\ UNCHANGED queueRest
  /\ cpc[c] = "unlocked"
  /\ IF cdeps[c] = {}
     THEN /\ hist' = Note(hist, LayerJob(c), TRUE, FALSE)
          /\ cpc' = [cpc EXCEPT ![c] = "done"]
          /\ UNCHANGED depMap
     ELSE /\ depMap' = Put(depMap, LayerJob(c), cdeps[c])
          /\ cpc' = [cpc EXCEPT ![c] = "waiting"]
          /\ UNCHANGED hist
  /\ UNCHANGED <<callbacks, reverseDepMap, visited, queue, stored, blockView, known,
                 children, cdeps, wpc, batch, wdeps, anyFail, cbFailed, settled, orphans>>

\* func (s *Syncer) GetBlocks: getBlocks(types.LayerID(rand.Int31()), ids)
\* calling addDependencies(jobID, blockIds, foo), here run without another
\* goroutine in between; the random id drawn is the id of a layer whose
\* syncLayer is waiting for its blocks, layer job c
GetBlocks(c) ==
  /\ gpc = "idle"
  /\ cpc[c] = "waiting"
  /\ gpc' = "registered"
  /\ \E blks \in SeqsUpTo(Blocks, MaxGetBlocks) :
       LET r == AddLoop(reverseDepMap, visited, stored, LayerJob(c), blks, {}, <<>>)
       IN /\ callbacks' = Put(callbacks, LayerJob(c), GetBlocksCallback(c))
          /\ reverseDepMap' = r.rev
          /\ queue' = AddToPending(queue, r.push)
          /\ settled' = settled \ r.deps
          /\ depMap' = IF r.deps = {} THEN depMap
                       ELSE Put(depMap, LayerJob(c), r.deps)
  /\ UNCHANGED <<visited, stored, blockView, known, cpc, children, cdeps, wpc,
                 batch, wdeps, hist, anyFail, cbFailed, orphans>>
  /\ UNCHANGED <<svars, ivars, ovars, fvars, lvars, kvars, cvars, wvars, bvars,
                 nvars, avars, rvars>>

(***************************************************************************)
(* The fetch-queue worker: handleBlock on one fetch job                    *)
(***************************************************************************)
Views == {v \in SUBSET Blocks : Cardinality(v) <= MaxEdges}

\* fetchQueue.work receives the next batch from the queue channel
WorkTake ==
  /\ UNCHANGED queueRest
  /\ wpc = "idle"
  /\ queue # <<>>
  /\ batch' = Head(queue)
  /\ queue' = Tail(queue)
  /\ wpc' = "loop"
  /\ UNCHANGED <<callbacks, depMap, reverseDepMap, visited, stored, blockView, known,
                 cpc, children, cdeps, wdeps, hist, anyFail, cbFailed, settled, orphans>>

Advance(rest) ==
  /\ batch' = rest
  /\ wpc' = IF rest = <<>> THEN "idle" ELSE "loop"

\* handleBlock: the block of id is not among the items
WorkNotFound ==
  /\ UNCHANGED queueRest
  /\ wpc = "loop"
  /\ LET id == Head(batch)
     IN /\ id \notin stored
        /\ SetQ(updateDependencies([QRec EXCEPT !.af = TRUE], id, FALSE, {}))
  /\ Advance(Tail(batch))
  /\ UNCHANGED <<queue, blockView, known, cpc, children, cdeps, wdeps>>

\* the block of id was fetched: its content is fixed by its hash
Learn(id, v) ==
  /\ id \in known => blockView[id] = v
  /\ blockView' = [blockView EXCEPT ![id] = v]
  /\ known' = known \cup {id}

\* handleBlock: fetched, fastValidation fails
WorkInvalid ==
  /\ UNCHANGED queueRest
  /\ wpc = "loop"
  /\ LET id == Head(batch)
     IN /\ \E v \in Views : Learn(id, v)
        /\ SetQ(updateDependencies([QRec EXCEPT !.vis = @ \cup {id}, !.af = TRUE],
                                   id, FALSE, {}))
  /\ Advance(<<>>)
  /\ UNCHANGED <<queue, cpc, children, cdeps, wdeps>>

\* handleBlock: fetched, fastValidation passes; handleBlockDependencies
\* enters addDependencies(blk.ID(), blk.ViewEdges, finishBlockCallback(blk))
WorkValid ==
  /\ UNCHANGED queueRest
  /\ wpc = "loop"
  /\ LET id == Head(batch)
     IN \E v \in Views :
          /\ Learn(id, v)
          /\ LET vis1 == visited \cup {id}
                 r == AddLoop(reverseDepMap, vis1, stored, BlockJob(id),
                              SetToSeq(v), {}, <<>>)
             IN /\ visited' = vis1
                /\ callbacks' = Put(callbacks, BlockJob(id), FinishCallback(id))
                /\ reverseDepMap' = r.rev
                /\ queue' = AddToPending(queue, r.push)
                /\ settled' = settled \ r.deps
                /\ wdeps' = r.deps
                /\ hist' = [hist EXCEPT ![BlockJob(id)] = NoHist]
  /\ wpc' = "store"
  /\ UNCHANGED <<depMap, stored, cpc, children, cdeps, batch, anyFail, cbFailed, orphans>>

\* addDependencies returns to handleBlockDependencies
WorkStore ==
  /\ UNCHANGED queueRest
  /\ wpc = "store"
  /\ LET id == Head(batch)
     IN IF wdeps = {}
        THEN \E fail \in SUBSET Blocks :
               LET r == RunCallback(QRec, BlockJob(id), TRUE, 0, fail)
                   \* err != nil: updateDependencies(blk.Hash32(), false)
                   q1 == IF r.err
                         THEN updateDependencies(r.q, id, FALSE, fail)
                         ELSE r.q
               \* res == false: updateDependencies(blk.Hash32(), true)
               IN SetQ(updateDependencies(q1, id, TRUE, fail))
        ELSE /\ depMap' = Put(depMap, BlockJob(id), wdeps)
             /\ UNCHANGED <<callbacks, reverseDepMap, visited, stored, hist,
                            anyFail, cbFailed, settled, orphans>>
  /\ Advance(Tail(batch))
  /\ UNCHANGED <<queue, blockView, known, cpc, children, cdeps, wdeps>>

(***************************************************************************)
(* Syncer: gossip status and await channel                                 *)
(***************************************************************************)
pending == "pending"
inProgress == "inProgress"
done == "done"
inProgress2 == "inProgress2"

Layers == 0..MaxLayer

\* notifySubscribers without the else branch: leaving done keeps the channel
notifySubscribersKeepsChannel(prevStatus, status) ==
  IF (status = done) = (prevStatus = done)
  THEN [ch |-> awaitCh, closed |-> closedChs, next |-> nextCh, old |-> oldChs,
        dbl |-> doubleClose]
  ELSE IF status = done
       THEN [ch |-> awaitCh, closed |-> closedChs \cup {awaitCh}, next |-> nextCh,
             old |-> oldChs, dbl |-> doubleClose \/ awaitCh \in closedChs]
       ELSE [ch |-> awaitCh, closed |-> closedChs, next |-> nextCh,
             old |-> oldChs, dbl |-> doubleClose]

\* func (s *Syncer) notifySubscribers: the channel state after the call
notifySubscribers(prevStatus, status) ==
  IF (status = done) = (prevStatus = done)
  THEN [ch |-> awaitCh, closed |-> closedChs, next |-> nextCh, old |-> oldChs,
        dbl |-> doubleClose]
  ELSE IF status = done
       THEN \* close(s.awaitCh)
            [ch |-> awaitCh, closed |-> closedChs \cup {awaitCh}, next |-> nextCh,
             old |-> oldChs, dbl |-> doubleClose \/ awaitCh \in closedChs]
       ELSE \* s.awaitCh = make(chan struct{})
            [ch |-> nextCh, closed |-> closedChs, next |-> nextCh + 1,
             old |-> oldChs \cup {awaitCh}, dbl |-> doubleClose]

\* gossipSyncForOneFullLayer leaving the status as it is between the ticks
StatusBetweenTicksKept == pending

\* the status gossipSyncForOneFullLayer sets between the two ticks
StatusBetweenTicks == inProgress2

\* the pcs of handleNotSynced after its first statement
AfterReset == {"ns_loop", "gs_wait1", "gs_sync1", "gs_wait2", "gs_sync2"}

\* func (s *Syncer) setGossipBufferingStatus
setGossipBufferingStatus(status) ==
  IF status = gossipSynced
  THEN UNCHANGED <<gossipSynced, awaitCh, closedChs, nextCh, oldChs, doubleClose,
                   passTrace>>
  ELSE LET r == notifySubscribers(gossipSynced, status)
       IN /\ r.next <= MaxChans
          /\ awaitCh' = r.ch
          /\ closedChs' = r.closed
          /\ nextCh' = r.next
          /\ oldChs' = r.old
          /\ doubleClose' = r.dbl
          /\ gossipSynced' = status
          /\ passTrace' = IF spc \in AfterReset THEN Append(passTrace, status)
                          ELSE passTrace

NoStatusChange ==
  UNCHANGED <<gossipSynced, awaitCh, closedChs, nextCh, oldChs, doubleClose,
              passTrace>>

\* weaklySynced off by one: the latest layer has to be the given one
weaklySyncedStrict(layer) == latest >= layer

\* weaklySynced holding for no layer
weaklySyncedNever(layer) == FALSE

\* func (s *Syncer) weaklySynced
weaklySynced(layer) == latest + 1 >= layer

\* Mesh.ValidateLayer: the layer becomes the processed layer
ValidateLayer(l) == processed' = l

validatingLayerNone == 0

\* no layer was validated by the step
NoValidation ==
  [layer |-> validatingLayerNone, sentinel |-> validatingLayerNone, held |-> FALSE]

NotValidating == validation' = NoValidation

\* func (s *Syncer) getAndValidateLayer: ValidateLayer runs with
\* validatingLayerMutex held and validatingLayer = id
getAndValidateLayer(id) ==
  /\ ValidateLayer(id)
  /\ validation' = [layer |-> id, sentinel |-> id, held |-> TRUE]

\* handleNotSynced: s.ValidateLayer(lyr, hareForLayer), called directly
ValidateLayerNotSynced(l) ==
  /\ ValidateLayer(l)
  /\ validation' = [layer |-> l, sentinel |-> validatingLayerNone, held |-> FALSE]

\* Mesh.SetZeroBlockLayer and block admission: the layer becomes known
MarkLayer(l) == latest' = IF l > latest THEN l ELSE latest

\* IsGenesis holding for no layer
IsGenesisNever(l) == FALSE

\* types.LayerID.GetEpoch().IsGenesis(): the layer is in a genesis epoch
IsGenesis(l) == l <= LastGenesisLayer

\* synchronise returns: the deferred s.syncLock.Unlock()
Return == spc' = "idle"

\* observation: no synchronise call has returned since the last one began
NoEnd == [from |-> "none", status |-> pending, processed |-> 0, current |-> 0,
          closed |-> FALSE]

\* observation: the state a synchronise call returns in, from the pc it
\* returns from
Snapshot(from) ==
  [from |-> from, status |-> gossipSynced', processed |-> processed',
   current |-> current', closed |-> exitClosed']

\* syncLock.TryLock() succeeds only on a free lock
TryLockAlways(lock) == TRUE

TryLock(lock) == ~lock

\* defer s.syncLock.Unlock(): the lock is released when the body returns
deferUnlock(lock) == IF spc' = "idle" THEN FALSE ELSE lock

\* a step that is no synchronise call
NoCall ==
  /\ UNCHANGED <<syncLock, calls, overlap>>
  /\ dropped' = FALSE

\* observation of a step of the synchronise body
ObserveStep ==
  /\ cycEnd' = IF spc' = "idle" THEN Snapshot(spc) ELSE cycEnd
  /\ UNCHANGED cycStart
  /\ syncLock' = deferUnlock(syncLock)
  /\ UNCHANGED <<calls, overlap>>
  /\ dropped' = FALSE

\* observation of the beginning of a synchronise call
ObserveStart ==
  /\ cycStart' = IF gossipSynced = pending /\ latest + 1 >= current
                 THEN "weakPending" ELSE "other"
  /\ cycEnd' = IF spc' = "idle" THEN Snapshot("start") ELSE NoEnd
  /\ syncLock' = deferUnlock(TRUE)
  /\ calls' = calls - 1
  /\ overlap' = (overlap \/ spc # "idle")
  /\ dropped' = FALSE

(***************************************************************************)
(* Layer hashes from the peers                                             *)
(***************************************************************************)
Peers == 1..NumPeers
LayerBlocks == 1..NumLayerBlocks

\* types.CalcBlocksHash32: the hash of a list of block ids is a function of
\* the set of its ids (the ids are sorted before hashing); distinct sets have
\* distinct hashes
CalcBlocksHash32(ids) == Range(ids)

\* var emptyLayer = types.Layer{}.Hash()
emptyLayer == CalcBlocksHash32(<<>>)

LayerHashes == SUBSET LayerBlocks

\* what the peers worker gets from a peer for a layer-hash request: no reply
\* within the request timeout, or a hash
NoReply == [ok |-> FALSE, hash |-> emptyLayer]
HashReplies == {NoReply} \cup {[ok |-> TRUE, hash |-> h] : h \in LayerHashes}

\* the replies handleNotSynced is run with: none, the empty-layer hash, and
\* the hash of a layer with one block
SomeHashReplies ==
  {NoReply, [ok |-> TRUE, hash |-> emptyLayer],
   [ok |-> TRUE, hash |-> CalcBlocksHash32(<<1>>)]}

\* layerHasBlocks set by every reply, the empty-layer hash included
layerHasBlocksAnyReply(peers, resp) ==
  \E p \in peers : resp[p].ok

\* fetchLayerHashes: the flag layerHasBlocks after the loop over wrk.output
layerHasBlocks(peers, resp) ==
  \E p \in peers : resp[p].ok /\ resp[p].hash # emptyLayer

\* fetchLayerHashes: the map m after the loop over wrk.output, the replies
\* arriving in the given order
RECURSIVE HashMap(_, _, _)
HashMap(m, resp, order) ==
  IF order = <<>> THEN m
  ELSE LET p == Head(order)
           h == resp[p].hash
       IN IF resp[p].ok /\ h # emptyLayer
          THEN HashMap(Put(m, h, Append(IF h \in DOMAIN m THEN m[h] ELSE <<>>, p)),
                       resp, Tail(order))
          ELSE HashMap(m, resp, Tail(order))

\* func (s *Syncer) fetchLayerHashes: the map and the error it returns
fetchLayerHashes(resp, order) ==
  LET m == HashMap(EmptyMap, resp, order)
  IN IF ~layerHasBlocks(Range(order), resp)
     THEN [m |-> EmptyMap, err |-> "errNoBlocksInLayer"]
     ELSE IF DOMAIN m = {}
          THEN [m |-> EmptyMap, err |-> "could not get layer hashes from any peer"]
          ELSE [m |-> m, err |-> "nil"]

\* getLayerFromNeighbors taking an empty peer set for an empty layer
getLayerFromNeighborsEmptyOnNoPeers(peers, resp, rest) ==
  IF peers = {} THEN "empty"
  ELSE LET r == fetchLayerHashes(resp, SetToSeq(peers))
       IN IF r.err = "errNoBlocksInLayer" THEN "empty"
          ELSE IF r.err # "nil" THEN "err"
          ELSE rest

\* func (s *Syncer) getLayerFromNeighbors: "err" (an error), "empty" (an
\* empty layer) or "blocks" (a layer with blocks); rest is the outcome of
\* fetchLayerBlockIds and syncLayer when the layer has blocks
getLayerFromNeighbors(peers, resp, rest) ==
  IF peers = {} THEN "err"
  ELSE LET r == fetchLayerHashes(resp, SetToSeq(peers))
       IN IF r.err = "errNoBlocksInLayer" THEN "empty"
          ELSE IF r.err # "nil" THEN "err"
          ELSE rest

\* Mesh.SetZeroBlockLayer: the layer becomes known, with no blocks
SetZeroBlockLayer(l) == MarkLayer(l)

\* observation: no getLayerFromNeighbors yet
NoFetch == [layer |-> 0, peers |-> 0, replies |-> 0, hashes |-> 0, out |-> "none",
            zeroed |-> FALSE]

\* observation: a getLayerFromNeighbors call of handleNotSynced: the layer,
\* the number of peers, of replies and of replies with a non-empty hash, the
\* outcome, and whether SetZeroBlockLayer was called and succeeded
Fetched(l, peers, resp, out, zeroed) ==
  [layer |-> l, peers |-> Cardinality(peers),
   replies |-> Cardinality({p \in peers : resp[p].ok}),
   hashes |-> Cardinality({p \in peers : resp[p].ok /\ resp[p].hash # emptyLayer}),
   out |-> out, zeroed |-> zeroed]

\* the ticker advances the clock and notifies the subscriber
Tick ==
  /\ ~panicked
  /\ current < MaxLayer
  /\ current' = current + 1
  /\ tickCh' = IF subscribed THEN Append(tickCh, current + 1) ELSE tickCh
  /\ UNCHANGED <<gossipSynced, awaitCh, closedChs, nextCh, oldChs, doubleClose,
                 spc, processed, latest, csl, flayer, subscribed, exitClosed,
                 panicked, passTrace>> /\ NotValidating
  /\ UNCHANGED <<syncRest, ovars>>
  /\ NoCall
  /\ lastFetch' = NoFetch

\* func (s *Syncer) Close: close(s.exit)
Close ==
  /\ ~panicked
  /\ ~exitClosed
  /\ exitClosed' = TRUE
  /\ UNCHANGED <<gossipSynced, awaitCh, closedChs, nextCh, oldChs, doubleClose,
                 spc, current, processed, latest, csl, flayer, tickCh, subscribed,
                 panicked, passTrace>> /\ NotValidating
  /\ UNCHANGED <<syncRest, ovars>>
  /\ NoCall
  /\ lastFetch' = NoFetch

\* a block of the current layer arrives by gossip and is added to the mesh
getGossipBufferingStatus == gossipSynced

ListenToGossipStatusOnly == getGossipBufferingStatus # pending

ListenToGossip == AlwaysListen \/ getGossipBufferingStatus # pending

GossipBlock ==
  /\ ~panicked
  /\ ListenToGossip
  /\ latest < current
  /\ MarkLayer(current)
  /\ UNCHANGED <<gossipSynced, awaitCh, closedChs, nextCh, oldChs, doubleClose,
                 spc, current, processed, csl, flayer, tickCh, subscribed,
                 exitClosed, panicked, passTrace>> /\ NotValidating
  /\ UNCHANGED <<syncRest, ovars>>
  /\ NoCall
  /\ lastFetch' = NoFetch

\* func (s *Syncer) synchronise, up to the call of handleWeaklySynced or
\* handleNotSynced; spc = "idle" is s.syncLock being free
\* run(): a forceSync message or a timer tick spawns a synchronise goroutine
run ==
  /\ ~panicked
  /\ calls < MaxCalls
  /\ calls' = calls + 1
  /\ UNCHANGED <<syncLock, overlap>>
  /\ dropped' = FALSE
  /\ lastFetch' = NoFetch
  /\ UNCHANGED <<svars, ovars, syncRest>> /\ NotValidating

\* synchronise() while the lock is held: returns at once
SynchroniseDropped ==
  /\ ~panicked
  /\ calls > 0
  /\ ~TryLock(syncLock)
  /\ calls' = calls - 1
  /\ dropped' = TRUE
  /\ UNCHANGED <<syncLock, overlap>>
  /\ lastFetch' = NoFetch
  /\ UNCHANGED <<svars, ovars, syncRest>> /\ NotValidating

SynchroniseStart ==
  /\ ~panicked
  /\ calls > 0
  /\ TryLock(syncLock)
  /\ IF current = processed
     THEN /\ setGossipBufferingStatus(done)
          /\ Return
          /\ UNCHANGED csl
     ELSE /\ NoStatusChange
          /\ IF weaklySynced(current)
             THEN /\ spc' = "ws_enter"
                  /\ UNCHANGED csl
             ELSE /\ spc' = "ns_reset"
                  /\ csl' = processed + 1
  /\ UNCHANGED <<current, processed, latest, flayer, tickCh, subscribed,
                 exitClosed, panicked>> /\ NotValidating
  /\ UNCHANGED syncRest
  /\ lastFetch' = NoFetch
  /\ ObserveStart

\* handleLayersTillCurrent: the check before the loop and the loop's init
WeakLayersEnter ==
  /\ ~panicked
  /\ spc = "ws_enter"
  /\ NoStatusChange
  /\ IF processed + 1 >= current
     THEN /\ spc' = "ws_cur"
          /\ UNCHANGED csl
     ELSE /\ spc' = "ws_layers"
          /\ csl' = processed + 1
  /\ UNCHANGED <<current, processed, latest, flayer, tickCh, subscribed,
                 exitClosed, panicked>> /\ NotValidating
  /\ UNCHANGED syncRest
  /\ lastFetch' = NoFetch
  /\ ObserveStep

\* handleLayersTillCurrent: one iteration of the loop
WeakLayersStep ==
  /\ ~panicked
  /\ spc = "ws_layers"
  /\ NoStatusChange
  /\ IF csl >= current
     THEN /\ spc' = "ws_cur"
          /\ UNCHANGED <<csl, processed, panicked>> /\ NotValidating
     ELSE IF exitClosed
          THEN /\ spc' = "ws_cur"
               /\ UNCHANGED <<csl, processed, panicked>> /\ NotValidating
          ELSE \E ok \in BOOLEAN :
                 IF ok
                 THEN /\ getAndValidateLayer(csl)
                      /\ csl' = csl + 1
                      /\ UNCHANGED <<spc, panicked>>
                 ELSE IF IsGenesis(csl)
                      THEN /\ csl' = csl + 1
                           /\ UNCHANGED <<spc, processed, panicked>> /\ NotValidating
                      ELSE /\ panicked' = TRUE
                           /\ UNCHANGED <<spc, csl, processed>> /\ NotValidating
  /\ UNCHANGED <<current, latest, flayer, tickCh, subscribed, exitClosed>>
  /\ UNCHANGED syncRest
  /\ lastFetch' = NoFetch
  /\ ObserveStep

\* handleWeaklySynced: the isClosed check and handleCurrentLayer.  res: "ok"
\* (nothing to do), "validated" (getAndValidateLayer succeeded), "zero" (the
\* layer was not found and recorded as empty), "err" (SetZeroBlockLayer
\* failed), "panic" (getAndValidateLayer failed otherwise)
WeakCurrent ==
  /\ ~panicked
  /\ spc = "ws_cur"
  /\ IF exitClosed
     THEN /\ Return
          /\ NoStatusChange
          /\ UNCHANGED <<processed, latest, panicked>> /\ NotValidating
     ELSE \E res \in {"ok", "validated", "zero", "err", "panic"} :
            /\ res \in {"validated", "panic"} => latest = current
            /\ res \in {"zero", "err"} =>
                 (latest = current \/ (latest + 1 = current /\ IsGenesis(current)))
            /\ IF res = "panic"
               THEN /\ panicked' = TRUE
                    /\ NoStatusChange
                    /\ UNCHANGED <<spc, processed, latest>> /\ NotValidating
               ELSE IF res = "err"
                    THEN /\ setGossipBufferingStatus(pending)
                         /\ Return
                         /\ UNCHANGED <<processed, latest, panicked>> /\ NotValidating
                    ELSE /\ NoStatusChange
                         /\ spc' = "ws_done"
                         /\ IF res = "validated" THEN getAndValidateLayer(latest)
                            ELSE UNCHANGED processed /\ NotValidating
                         /\ IF res = "zero" THEN SetZeroBlockLayer(latest)
                            ELSE UNCHANGED latest
                         /\ UNCHANGED panicked
  /\ UNCHANGED <<current, csl, flayer, tickCh, subscribed, exitClosed>>
  /\ lastFetch' = NoFetch
  /\ UNCHANGED syncRest
  /\ ObserveStep

\* handleWeaklySynced: the last isClosed check and setGossipBufferingStatus(done)
WeakDone ==
  /\ ~panicked
  /\ spc = "ws_done"
  /\ IF exitClosed THEN NoStatusChange ELSE setGossipBufferingStatus(done)
  /\ Return
  /\ UNCHANGED <<current, processed, latest, csl, flayer, tickCh, subscribed,
                 exitClosed, panicked>> /\ NotValidating
  /\ UNCHANGED syncRest
  /\ lastFetch' = NoFetch
  /\ ObserveStep

\* handleNotSynced: setGossipBufferingStatus(pending)
NotSyncedReset ==
  /\ ~panicked
  /\ spc = "ns_reset"
  /\ IF gossipSynced = pending
     THEN UNCHANGED <<gossipSynced, awaitCh, closedChs, nextCh, oldChs, doubleClose>>
     ELSE LET r == notifySubscribers(gossipSynced, pending)
          IN /\ r.next <= MaxChans
             /\ awaitCh' = r.ch
             /\ closedChs' = r.closed
             /\ nextCh' = r.next
             /\ oldChs' = r.old
             /\ doubleClose' = r.dbl
             /\ gossipSynced' = pending
  /\ passTrace' = <<pending>>
  /\ spc' = "ns_loop"
  /\ UNCHANGED <<current, processed, latest, csl, flayer, tickCh, subscribed,
                 exitClosed, panicked>> /\ NotValidating
  /\ UNCHANGED syncRest
  /\ lastFetch' = NoFetch
  /\ ObserveStep

\* handleNotSynced: one iteration of the loop over the layers before the
\* current one, or the call of gossipSyncForOneFullLayer (ticker.Subscribe)
\* what the rest of getLayerFromNeighbors can yield once the hashes are in,
\* and what SetZeroBlockLayer can yield when the layer came out empty
RestOutcomes(h) == IF h = "blocks" THEN {"blocks", "err"} ELSE {"blocks"}

ZeroOutcomes(h) == IF h = "empty" THEN BOOLEAN ELSE {FALSE}

\* peers.GetPeers(): the connected peers; peers are interchangeable, so the
\* sets 1..k stand for all sets of k peers
GetPeers == {1..k : k \in 0..NumPeers}

NotSyncedLoop ==
  /\ ~panicked
  /\ spc = "ns_loop"
  /\ NoStatusChange
  /\ IF csl < current
     THEN IF exitClosed
          THEN /\ Return
               /\ UNCHANGED <<csl, processed, latest, tickCh, subscribed>> /\ NotValidating
               /\ lastFetch' = NoFetch
          ELSE \E peers \in GetPeers :
               \E resp \in [peers -> SomeHashReplies] :
               \E h \in {getLayerFromNeighbors(peers, resp, "blocks")} :
               \E rest \in RestOutcomes(h), zeroOk \in ZeroOutcomes(h) :
                 LET out == IF h = "blocks" THEN rest ELSE h
                 IN /\ lastFetch' = Fetched(csl, peers, resp, out, out = "empty" /\ zeroOk)
                    /\ IF out = "err" \/ (out = "empty" /\ ~zeroOk)
                       THEN /\ Return
                            /\ UNCHANGED <<csl, processed, latest>> /\ NotValidating
                       ELSE /\ IF out = "empty" THEN SetZeroBlockLayer(csl)
                               ELSE MarkLayer(csl)
                            /\ ValidateLayerNotSynced(csl)
                            /\ csl' = csl + 1
                            /\ UNCHANGED spc
                    /\ UNCHANGED <<tickCh, subscribed>>
     ELSE /\ spc' = "gs_wait1"
          /\ tickCh' = <<>>
          /\ subscribed' = TRUE
          /\ UNCHANGED <<csl, processed, latest>> /\ NotValidating
          /\ lastFetch' = NoFetch
  /\ UNCHANGED <<current, flayer, exitClosed, panicked>>
  /\ UNCHANGED syncRest
  /\ ObserveStep

\* func (s *Syncer) waitLayer, called for the first and for the second tick
WaitLayer ==
  /\ ~panicked
  /\ spc \in {"gs_wait1", "gs_wait2"}
  /\ NoStatusChange
  /\ \/ /\ tickCh # <<>>
        /\ tickCh' = Tail(tickCh)
        /\ flayer' = IF spc = "gs_wait1" THEN Head(tickCh) ELSE flayer
        /\ spc' = IF spc = "gs_wait1" THEN "gs_sync1" ELSE "gs_sync2"
     \/ /\ exitClosed
        /\ Return
        /\ UNCHANGED <<tickCh, flayer>>
  /\ UNCHANGED <<current, processed, latest, csl, subscribed, exitClosed, panicked>> /\ NotValidating
  /\ UNCHANGED syncRest
  /\ lastFetch' = NoFetch
  /\ ObserveStep

\* gossipSyncForOneFullLayer after a tick: syncSingleLayer and
\* getAndValidateLayer for the layer; ok: both succeed (the layer is validated
\* or recorded as empty), otherwise the function returns the error
GossipSyncLayer ==
  /\ ~panicked
  /\ spc \in {"gs_sync1", "gs_sync2"}
  /\ LET lyr == IF spc = "gs_sync1" THEN csl ELSE flayer
     IN \E res \in {"validated", "zero", "err"} :
          IF res = "err" \/ exitClosed
          THEN /\ Return
               /\ NoStatusChange
               /\ UNCHANGED <<processed, latest, subscribed>> /\ NotValidating
          ELSE /\ IF res = "validated"
                  THEN MarkLayer(lyr) /\ getAndValidateLayer(lyr)
                  ELSE SetZeroBlockLayer(lyr) /\ UNCHANGED processed /\ NotValidating
               /\ IF spc = "gs_sync1"
                  THEN /\ setGossipBufferingStatus(StatusBetweenTicks)
                       /\ spc' = "gs_wait2"
                       /\ UNCHANGED subscribed
                  ELSE /\ subscribed' = FALSE
                       /\ setGossipBufferingStatus(done)
                       /\ Return
  /\ UNCHANGED <<current, csl, flayer, tickCh, exitClosed, panicked>>
  /\ lastFetch' = NoFetch
  /\ UNCHANGED syncRest
  /\ ObserveStep

(***************************************************************************)
(* Start, run, ForceSync and Close                                         *)
(***************************************************************************)
Starters == 1..NumStarts
Forcers == 1..NumForceSyncs
Closers == 1..NumCloses

\* what these operations leave unchanged in the rest of the syncer
lifeRest ==
  <<gossipSynced, awaitCh, closedChs, nextCh, oldChs, doubleClose, spc, current,
    processed, latest, csl, flayer, tickCh, subscribed, panicked, passTrace,
    qvars, ivars, ovars, fvars, lvars, kvars, cvars, wvars, bvars, nvars, avars,
    gvars>>

\* a run-time panic ends the process
Running == crash = "none"

\* Start, up to the send on forceSync: startLock.TryLock(); when it fails the
\* call returns ("syncer already started"); when isClosed() the call returns
\* and the deferred Unlock frees the lock; otherwise go s.run()
StartBegin(p) ==
  /\ Running
  /\ stpc[p] = "idle"
  /\ IF startLock
     THEN /\ stpc' = [stpc EXCEPT ![p] = "done"]
          /\ UNCHANGED <<startLock, runLoops, lateRun>>
     ELSE IF exitClosed
          THEN /\ stpc' = [stpc EXCEPT ![p] = "done"]
               /\ UNCHANGED <<startLock, runLoops, lateRun>>
          ELSE /\ startLock' = TRUE
               /\ runLoops' = runLoops + 1
               /\ lateRun' = (lateRun \/ exitClosed)
               /\ stpc' = [stpc EXCEPT ![p] = "send"]
  /\ UNCHANGED <<forceSyncClosed, fspc, clpc, crash, lateSync, exitClosed>>
  /\ UNCHANGED lifeRest

\* Start: s.forceSync <- true is received by a run loop, which launches a
\* synchronise; Start returns and the deferred Unlock frees startLock
StartSend(p) ==
  /\ Running
  /\ stpc[p] = "send"
  /\ runLoops > 0
  /\ ~forceSyncClosed
  /\ lateSync' = (lateSync \/ exitClosed)
  /\ startLock' = FALSE
  /\ stpc' = [stpc EXCEPT ![p] = "done"]
  /\ UNCHANGED <<forceSyncClosed, runLoops, fspc, clpc, crash, lateRun, exitClosed>>
  /\ UNCHANGED lifeRest

\* ForceSync is called: the goroutine reaches s.forceSync <- true
ForceSyncCall(f) ==
  /\ Running
  /\ fspc[f] = "idle"
  /\ fspc' = [fspc EXCEPT ![f] = "send"]
  /\ UNCHANGED <<startLock, forceSyncClosed, runLoops, stpc, clpc, crash, lateRun,
                 lateSync, exitClosed>>
  /\ UNCHANGED lifeRest

\* ForceSync: s.forceSync <- true.  A send on a closed channel panics; on an
\* open channel it waits for a run loop to receive, which then launches a
\* synchronise
ForceSyncSend(f) ==
  /\ Running
  /\ fspc[f] = "send"
  /\ IF forceSyncClosed
     THEN /\ crash' = "send on closed channel"
          /\ UNCHANGED <<fspc, lateSync>>
     ELSE /\ runLoops > 0
          /\ lateSync' = (lateSync \/ exitClosed)
          /\ fspc' = [fspc EXCEPT ![f] = "done"]
          /\ UNCHANGED crash
  /\ UNCHANGED <<startLock, forceSyncClosed, runLoops, stpc, clpc, lateRun, exitClosed>>
  /\ UNCHANGED lifeRest

\* Close: s.startLock.Lock() and close(s.exit); closing a closed channel
\* panics
CloseExit(k) ==
  /\ Running
  /\ clpc[k] = "idle"
  /\ ~startLock
  /\ IF exitClosed
     THEN /\ crash' = "close of closed channel"
          /\ UNCHANGED <<startLock, clpc, exitClosed>>
     ELSE /\ startLock' = TRUE
          /\ exitClosed' = TRUE
          /\ clpc' = [clpc EXCEPT ![k] = "closeForceSync"]
          /\ UNCHANGED crash
  /\ UNCHANGED <<forceSyncClosed, runLoops, stpc, fspc, lateRun, lateSync>>
  /\ UNCHANGED lifeRest

\* Close: close(s.forceSync) and s.startLock.Unlock()
CloseForceSync(k) ==
  /\ Running
  /\ clpc[k] = "closeForceSync"
  /\ IF forceSyncClosed
     THEN /\ crash' = "close of closed channel"
          /\ UNCHANGED <<startLock, forceSyncClosed, clpc>>
     ELSE /\ forceSyncClosed' = TRUE
          /\ startLock' = FALSE
          /\ clpc' = [clpc EXCEPT ![k] = "done"]
          /\ UNCHANGED crash
  /\ UNCHANGED <<runLoops, stpc, fspc, lateRun, lateSync, exitClosed>>
  /\ UNCHANGED lifeRest

\* run: the select takes case <-s.exit and the loop returns
RunExit ==
  /\ Running
  /\ runLoops > 0
  /\ exitClosed
  /\ runLoops' = runLoops - 1
  /\ UNCHANGED <<startLock, forceSyncClosed, stpc, fspc, clpc, crash, lateRun,
                 lateSync, exitClosed>>
  /\ UNCHANGED lifeRest

\* run: the select takes case <-s.syncTimer.C, or case <-s.forceSync on the
\* closed channel (a receive that never blocks): go s.synchronise().  The
\* select chooses among its ready cases, also when s.exit is one of them
RunSynchronise ==
  /\ Running
  /\ runLoops > 0
  /\ lateSync' = (lateSync \/ exitClosed)
  /\ UNCHANGED <<startLock, forceSyncClosed, runLoops, stpc, fspc, clpc, crash,
                 lateRun, exitClosed>>
  /\ UNCHANGED lifeRest

InitLifeVars ==
  /\ startLock = FALSE
  /\ forceSyncClosed = FALSE
  /\ runLoops = 0
  /\ stpc = [p \in Starters |-> "idle"]
  /\ fspc = [f \in Forcers |-> "idle"]
  /\ clpc = [k \in Closers |-> "idle"]
  /\ crash = "none"
  /\ lateRun = FALSE
  /\ lateSync = FALSE

\* how each accessor of gossipSynced and awaitCh takes s.gossipLock:
\* getGossipBufferingStatus reads under RLock, setGossipBufferingStatus (and
\* notifySubscribers, which it calls) writes under Lock, Await takes no lock
gossipLockTaken ==
  [getGossipBufferingStatus |-> "RLock",
   setGossipBufferingStatus |-> "Lock",
   Await |-> "none"]

NoAwait == [called |-> FALSE, ch |-> 0, lock |-> "none"]

\* func (s *Syncer) Await() chan struct{}: return s.awaitCh. A caller can run
\* it at any time, also while the sync goroutine replaces or closes the
\* channel; the read then sees the channel of before or of after that step,
\* which are the values this action returns when taken before or after it
Await ==
  /\ awaitRead' = [called |-> TRUE, ch |-> awaitCh, lock |-> gossipLockTaken.Await]
  /\ UNCHANGED <<qvars, svars, ivars, ovars, fvars, lvars, kvars, cvars, wvars,
                 bvars, nvars, gvars, rvars>>

InitSyncState ==
  /\ validation = NoValidation
  /\ awaitRead = NoAwait
  /\ InitLifeVars
  /\ syncLock = FALSE
  /\ calls = 0
  /\ overlap = FALSE
  /\ dropped = FALSE
  /\ lastFetch = NoFetch
  /\ cycStart = "none"
  /\ cycEnd = NoEnd
  /\ gossipSynced = pending
  /\ awaitCh = 0
  /\ closedChs = {}
  /\ nextCh = 1
  /\ oldChs = {}
  /\ doubleClose = FALSE
  /\ spc = "idle"
  /\ current = 0
  /\ processed = 0
  /\ latest = 0
  /\ csl = 0
  /\ flayer = 0
  /\ tickCh = <<>>
  /\ subscribed = FALSE
  /\ exitClosed = FALSE
  /\ panicked = FALSE
  /\ passTrace = <<>>

\* AlwaysListen is off unless the configuration sets it
InitSyncVars ==
  /\ InitSyncState
  /\ AlwaysListen = FALSE

(***************************************************************************)
(* Item queues: HandleItems, the pending map and the fetch batch           *)
(***************************************************************************)
Items == 1..NumItems
Callers == 1..NumCallers
NoResult == "none"
\* a fetched item is valid, or the completion is negative (invalid item or
\* no peer answered)
Results == {"valid", "invalid"}

\* step 2 without the look-up in the pending map
EnqueueAlways(q, c, id) ==
  [pend |-> [q.pend EXCEPT ![id] = @ \cup {c}],
   batch |-> Append(q.batch, id),
   reqs |-> q.reqs]

\* HandleItems, step 2, for one missing id: an id that is pending only gets
\* another waiter, any other id is put into the fetch batch
Enqueue(q, c, id) ==
  IF q.pend[id] # {}
  THEN [pend |-> [q.pend EXCEPT ![id] = @ \cup {c}],
        batch |-> q.batch,
        reqs |-> q.reqs]
  ELSE [pend |-> [q.pend EXCEPT ![id] = {c}],
        batch |-> Append(q.batch, id),
        reqs |-> [q.reqs EXCEPT ![id] = 0]]

RECURSIVE EnqueueAll(_, _, _)
EnqueueAll(q, c, ids) ==
  IF ids = <<>> THEN q
  ELSE EnqueueAll(Enqueue(q, c, Head(ids)), c, Tail(ids))

\* HandleItems(ids) up to the wait for the results: the ids found locally
\* are resolved at once, the missing ones are registered under the lock
HandleItems(c) ==
  /\ waitFor[c] = {}
  /\ \E ids \in (SUBSET Items) \ {{}} :
       LET missing == ids \ istore
           r == EnqueueAll([pend |-> ipending, batch |-> ibatch, reqs |-> reqs],
                           c, SetToSeq(missing))
       IN /\ ipending' = r.pend
          /\ ibatch' = r.batch
          /\ reqs' = r.reqs
          /\ waitFor' = [waitFor EXCEPT ![c] = missing]
          /\ got' = [got EXCEPT ![c] = [i \in Items |->
                       IF i \in ids /\ i \in istore THEN "valid" ELSE NoResult]]
  /\ UNCHANGED <<inflight, istore, delivered>>
  /\ UNCHANGED itemsRest

\* a fetch worker takes the batch and sends one request per id
Dispatch ==
  /\ ibatch # <<>>
  /\ inflight' = inflight \cup Range(ibatch)
  /\ reqs' = [i \in Items |->
                LET k == Cardinality({n \in DOMAIN ibatch : ibatch[n] = i})
                IN IF reqs[i] + k > 2 THEN 2 ELSE reqs[i] + k]
  /\ ibatch' = <<>>
  /\ UNCHANGED <<ipending, istore, waitFor, got, delivered>>
  /\ UNCHANGED itemsRest

\* the response for one id: every waiter of the id is completed with it; an
\* invalid item is a negative completion and is not put back into the batch
Response(id) ==
  /\ id \in inflight
  /\ \E res \in Results :
       /\ got' = [c \in Callers |-> IF c \in ipending[id]
                                    THEN [got[c] EXCEPT ![id] = res] ELSE got[c]]
       /\ delivered' = [delivered EXCEPT ![id] = {got'[c][id] : c \in ipending[id]}]
       /\ istore' = IF res = "valid" THEN istore \cup {id} ELSE istore
  /\ waitFor' = [c \in Callers |-> IF c \in ipending[id] THEN waitFor[c] \ {id}
                                   ELSE waitFor[c]]
  /\ ipending' = [ipending EXCEPT ![id] = {}]
  /\ inflight' = inflight \ {id}
  /\ UNCHANGED <<ibatch, reqs>>
  /\ UNCHANGED itemsRest

InitItemVars ==
  /\ ipending = [i \in Items |-> {}]
  /\ ibatch = <<>>
  /\ inflight = {}
  /\ istore = {}
  /\ waitFor = [c \in Callers |-> {}]
  /\ got = [c \in Callers |-> [i \in Items |-> NoResult]]
  /\ reqs = [i \in Items |-> 0]
  /\ delivered = [i \in Items |-> {}]

(***************************************************************************)
(* fetchLayerBlockIds                                                      *)
(***************************************************************************)
\* the orders in which the replies of the peers can arrive
Orders(peers) ==
  {o \in [1..Cardinality(peers) -> peers] : \A i, j \in DOMAIN o : i # j => o[i] # o[j]}

\* what a layer-ids request can end in: the request cannot be sent, the exit
\* channel is closed, the request times out, the channel yields nil, or the
\* peer sends a list of block ids
IdLists == SeqsUpTo(LayerBlocks, MaxIdsLen)
IdReplies ==
  {[kind |-> k, v |-> <<>>] : k \in {"error", "exit", "timeout", "nil"}}
    \cup {[kind |-> "ids", v |-> v] : v \in IdLists}

\* the loop over the ids of a reply without the look-up in idSet
AddIdsAll(acc, v) == acc \o v

\* fetchLayerBlockIds: the loop over the ids of a reply
RECURSIVE AddIds(_, _)
AddIds(acc, v) ==
  IF v = <<>> THEN acc
  ELSE IF Head(v) \in Range(acc) THEN AddIds(acc, Tail(v))
       ELSE AddIds(Append(acc, Head(v)), Tail(v))

\* getLayerFromNeighbors: fetchLayerHashes, and its map handed to
\* fetchLayerBlockIds
FetchHashes ==
  /\ fpc = "start"
  /\ \E resp \in [Peers -> HashReplies], order \in Orders(Peers) :
       LET r == fetchLayerHashes(resp, order)
       IN /\ ferr' = r.err
          /\ fm' = r.m
          /\ fleft' = DOMAIN r.m
          /\ fpc' = IF r.err = "nil" THEN "range" ELSE "done"
  /\ UNCHANGED <<fh, fpeers, fids, fasked, facc, ftaken, fdup>>
  /\ UNCHANGED fetchRest

\* fetchLayerBlockIds: for h, peers := range m, in the order the map yields
RangeHashes ==
  /\ fpc = "range"
  /\ IF fleft = {}
     THEN /\ fpc' = "done"
          /\ UNCHANGED <<fleft, fh, fpeers>>
     ELSE \E h \in fleft :
            /\ fh' = h
            /\ fpeers' = fm[h]
            /\ fleft' = fleft \ {h}
            /\ fpc' = "peer"
  /\ UNCHANGED <<fm, fids, ferr, fasked, facc, ftaken, fdup>>
  /\ UNCHANGED fetchRest

\* a timed-out peer ending the loop over the peers of its hash
SkipPeerEndsHash(peers) == <<>>

\* fetchLayerBlockIds: continue after a timeout or a nil reply, the loop goes
\* on with the peers after the one just asked
SkipPeer(peers) == Tail(peers)

\* fetchLayerBlockIds: one iteration of for _, peer := range peers
AskPeer ==
  /\ fpc = "peer"
  /\ IF fpeers = <<>>
     THEN /\ fpc' = "range"
          /\ UNCHANGED <<fpeers, fids, ferr, fasked, facc, ftaken, fdup>>
     ELSE LET peer == Head(fpeers)
          IN \E rep \in IdReplies :
               /\ fasked' = IF rep.kind = "error" THEN fasked
                            ELSE fasked \cup {<<fh, peer>>}
               /\ IF rep.kind \in {"error", "exit"}
                  THEN /\ ferr' = rep.kind
                       /\ fids' = <<>>
                       /\ fpc' = "done"
                       /\ UNCHANGED <<fpeers, facc, ftaken, fdup>>
                  ELSE IF rep.kind \in {"timeout", "nil"}
                       THEN /\ fpeers' = SkipPeer(fpeers)
                            /\ UNCHANGED <<fpc, fids, ferr, facc, ftaken, fdup>>
                       ELSE /\ fids' = AddIds(fids, rep.v)
                            /\ facc' = facc \cup {[hash |-> fh, peer |-> peer,
                                                    match |-> CalcBlocksHash32(rep.v) = fh]}
                            /\ ftaken' = ftaken \cup Range(rep.v)
                            /\ fdup' = (fdup \/ Range(rep.v) \cap Range(fids) # {})
                            /\ fpc' = "range"
                            /\ UNCHANGED <<fpeers, ferr>>
  /\ UNCHANGED <<fm, fleft, fh>>
  /\ UNCHANGED fetchRest

InitFetchVars ==
  /\ fpc = "start"
  /\ fm = EmptyMap
  /\ fleft = {}
  /\ fh = emptyLayer
  /\ fpeers = <<>>
  /\ fids = <<>>
  /\ ferr = "nil"
  /\ fasked = {}
  /\ facc = {}
  /\ ftaken = {}
  /\ fdup = FALSE

(***************************************************************************)
(* Blocking operations and shutdown                                        *)
(***************************************************************************)
Waiters == 1..NumWaiters

\* operations that select on s.exit, and operations that only read ch
SelectsOnExit == {"waitLayer", "syncLayer", "getBlocks"}
ReadsChannelOnly == {"fetchBlock", "validateBlockView"}
BlockingOps == SelectsOnExit \cup ReadsChannelOnly

\* the operation has registered its callback (addDependencies returned
\* true, nil) or, for waitLayer, subscribed to the ticker, and now waits
Block(w) ==
  /\ wst[w] = "idle"
  /\ \E op \in BlockingOps : wop' = [wop EXCEPT ![w] = op]
  /\ wst' = [wst EXCEPT ![w] = "blocked"]
  /\ UNCHANGED <<wch, wres>>
  /\ UNCHANGED <<svars, waitRest>>

\* the queue worker runs the callback foo(res), or the ticker sends a layer;
\* after Close the queues are closed and callbacks are no longer invoked
Deliver(w) ==
  /\ wst[w] = "blocked"
  /\ wch[w] = "empty"
  /\ ~exitClosed
  /\ \E v \in IF wop[w] = "waitLayer" THEN {"tick"} ELSE {"true", "false"} :
        wch' = [wch EXCEPT ![w] = v]
  /\ UNCHANGED <<wop, wst, wres>>
  /\ UNCHANGED <<svars, waitRest>>

\* what the operation returns for a value read from its channel
FromChannel(op, v) ==
  IF op = "waitLayer" THEN "layer"
  ELSE IF v = "true" THEN "ok"
  ELSE IF op = "syncLayer" THEN "error"
  ELSE IF op = "getBlocks" THEN "nil"
  ELSE "false"

\* what the operation returns when it reads s.exit
FromExit(op) == IF op = "waitLayer" THEN "exit" ELSE "received interrupt"

\* the select, or the bare channel read, the operation is blocked in
Unblock(w) ==
  /\ wst[w] = "blocked"
  /\ \/ /\ wch[w] # "empty"
        /\ wres' = [wres EXCEPT ![w] = FromChannel(wop[w], wch[w])]
     \/ /\ wop[w] \in SelectsOnExit
        /\ exitClosed
        /\ wres' = [wres EXCEPT ![w] = FromExit(wop[w])]
  /\ wst' = [wst EXCEPT ![w] = "returned"]
  /\ UNCHANGED <<wop, wch>>
  /\ UNCHANGED <<svars, waitRest>>

InitWaitVars ==
  /\ wop = [w \in Waiters |-> "none"]
  /\ wst = [w \in Waiters |-> "idle"]
  /\ wch = [w \in Waiters |-> "empty"]
  /\ wres = [w \in Waiters |-> "none"]

(***************************************************************************)
(* Validation of a block                                                   *)
(***************************************************************************)
TxIds == 1..NumTxIds
AtxIds == 1..NumAtxIds
EmptyATXID == 0
GoldenATXID == NumAtxIds + 1

\* types.Block: ActiveSet is a pointer to a list, RefBlock a pointer;
\* eligible is what BlockSignedAndEligible finds for the block
CandidateBlocks ==
  [TxIDs : SeqsUpTo(TxIds, MaxListLen),
   hasActiveSet : BOOLEAN,
   ActiveSet : SeqsUpTo(AtxIds, MaxListLen),
   ATXID : AtxIds \cup {EmptyATXID, GoldenATXID},
   hasRefBlock : BOOLEAN,
   eligible : BOOLEAN]

\* the loop of validateUniqueTxAtx over a list: TRUE when an id is met again
RECURSIVE Repeats(_, _)
Repeats(list, seen) ==
  IF list = <<>> THEN FALSE
  ELSE IF Head(list) \in seen THEN TRUE
  ELSE Repeats(Tail(list), seen \cup {Head(list)})

validateUniqueTxOnly(b) ==
  IF Repeats(b.TxIDs, {}) THEN "errDupTx" ELSE "nil"

validateUniqueTxAtx(b) ==
  IF Repeats(b.TxIDs, {}) THEN "errDupTx"
  ELSE IF b.hasActiveSet /\ Repeats(b.ActiveSet, {}) THEN "errDupAtx"
  ELSE "nil"

fastValidation(b) ==
  IF ~b.eligible THEN "block eligibility check failed"
  ELSE validateUniqueTxAtx(b)

\* atxsOk: the outcome of atxQueue.HandleAtxs
fetchAllReferencedAtxs(b, atxsOk) ==
  IF b.hasActiveSet /\ Len(b.ActiveSet) = 0 THEN "errZeroActiveSet"
  ELSE IF ~b.hasActiveSet /\ ~b.hasRefBlock THEN "errNoActiveSet"
  ELSE IF atxsOk THEN "nil" ELSE "atxs not fetched"

\* refOk: the outcome of fetchRefBlock
fetchBlockDataForValidation(b, refOk, atxsOk) ==
  IF b.hasRefBlock /\ ~refOk THEN "failed to fetch ref block"
  ELSE fetchAllReferencedAtxs(b, atxsOk)

\* dataOk, viewOk: the outcomes of dataAvailability and validateBlockView
blockSyntacticValidation(b, refOk, atxsOk, dataOk, viewOk) ==
  IF b.ATXID = EmptyATXID \/ b.ATXID = GoldenATXID THEN "errInvalidATXID"
  ELSE IF fetchBlockDataForValidation(b, refOk, atxsOk) # "nil"
       THEN fetchBlockDataForValidation(b, refOk, atxsOk)
  ELSE IF fastValidation(b) # "nil" THEN fastValidation(b)
  ELSE IF ~dataOk THEN "DataAvailabilty failed"
  ELSE IF ~viewOk THEN "block not syntacticly valid"
  ELSE "nil"

\* the requests fetchBlockDataForValidation makes: fetchRefBlock when the
\* block names a ref block, atxQueue.HandleAtxs unless the ref block was not
\* fetched or fetchAllReferencedAtxs returned before it
FetchSteps(b, refOk) ==
  (IF b.hasRefBlock THEN <<"fetchRefBlock">> ELSE <<>>)
    \o (IF /\ b.hasRefBlock => refOk
           /\ ~(b.hasActiveSet /\ Len(b.ActiveSet) = 0)
           /\ ~(~b.hasActiveSet /\ ~b.hasRefBlock)
        THEN <<"HandleAtxs">> ELSE <<>>)

\* the steps of blockSyntacticValidation up to the one it returns from
SyntacticSteps(b, refOk, atxsOk, dataOk, viewOk) ==
  IF b.ATXID = EmptyATXID \/ b.ATXID = GoldenATXID THEN <<"atx_id">>
  ELSE IF fetchBlockDataForValidation(b, refOk, atxsOk) # "nil"
       THEN <<"atx_id">> \o FetchSteps(b, refOk)
  ELSE IF fastValidation(b) # "nil"
       THEN <<"atx_id">> \o FetchSteps(b, refOk) \o <<"fastValidation">>
  ELSE IF ~dataOk
       THEN <<"atx_id">> \o FetchSteps(b, refOk) \o <<"fastValidation", "dataAvailability">>
  ELSE <<"atx_id">> \o FetchSteps(b, refOk)
         \o <<"fastValidation", "dataAvailability", "validateBlockView">>

FastValidate ==
  /\ vfast = "none"
  /\ vfast' = fastValidation(vblk)
  /\ UNCHANGED <<vblk, vsyn, vsteps>>
  /\ UNCHANGED validRest

SyntacticValidate ==
  /\ vsyn = "none"
  /\ \E refOk, atxsOk, dataOk, viewOk \in BOOLEAN :
        /\ vsyn' = blockSyntacticValidation(vblk, refOk, atxsOk, dataOk, viewOk)
        /\ vsteps' = SyntacticSteps(vblk, refOk, atxsOk, dataOk, viewOk)
  /\ UNCHANGED <<vblk, vfast>>
  /\ UNCHANGED validRest

\* no block is under validation
NoBlock ==
  [TxIDs |-> <<>>, hasActiveSet |-> FALSE, ActiveSet |-> <<>>,
   ATXID |-> EmptyATXID, hasRefBlock |-> FALSE, eligible |-> FALSE]

InitValidVars ==
  /\ vblk = NoBlock
  /\ vfast = "none"
  /\ vsyn = "none"
  /\ vsteps = <<>>

(***************************************************************************)
(* Specification of the dependency queue                                   *)
(***************************************************************************)
InitQueueVars ==
  /\ callbacks = EmptyMap
  /\ depMap = EmptyMap
  /\ reverseDepMap = EmptyMap
  /\ visited = {}
  /\ queue = <<>>
  /\ stored = {}
  /\ blockView = [b \in Blocks |-> {}]
  /\ known = {}
  /\ cpc = [c \in Clients |-> "idle"]
  /\ children = [c \in Clients |-> <<>>]
  /\ cdeps = [c \in Clients |-> {}]
  /\ wpc = "idle"
  /\ batch = <<>>
  /\ wdeps = {}
  /\ hist = [j \in Jobs |-> NoHist]
  /\ anyFail = FALSE
  /\ settled = {}
  /\ orphans = {}
  /\ cbFailed = {}
  /\ gpc = "idle"

InitQueue ==
  /\ InitQueueVars
  /\ InitSyncVars
  /\ InitItemVars
  /\ InitFetchVars
  /\ InitWaitVars
  /\ InitValidVars

NextQueue ==
  \/ \E c \in Clients : ClientAddLocked(c)
  \/ \E c \in Clients : ClientAddStore(c)
  \/ WorkTake
  \/ WorkNotFound
  \/ WorkInvalid
  \/ WorkValid
  \/ WorkStore

SpecQueue == InitQueue /\ [][NextQueue]_vars

\* the dependency queue with a caller of GetBlocks beside syncLayer
NextJobs ==
  \/ NextQueue
  \/ \E c \in Clients : GetBlocks(c)

SpecJobs == InitQueue /\ [][NextJobs]_vars

(***************************************************************************)
(* Specification of the Syncer's gossip status                             *)
(***************************************************************************)
InitGossip ==
  /\ InitQueueVars
  /\ InitSyncVars
  /\ InitItemVars
  /\ InitFetchVars
  /\ InitWaitVars
  /\ InitValidVars

NextGossip ==
  \/ Tick
  \/ Close
  \/ GossipBlock
  \/ run
  \/ SynchroniseDropped
  \/ SynchroniseStart
  \/ WeakLayersEnter
  \/ WeakLayersStep
  \/ WeakCurrent
  \/ WeakDone
  \/ NotSyncedReset
  \/ NotSyncedLoop
  \/ WaitLayer
  \/ GossipSyncLayer

SpecGossip == InitGossip /\ [][NextGossip]_vars

\* the syncer together with the callers of Await
NextAwait ==
  \/ NextGossip
  \/ Await

SpecAwait == InitGossip /\ [][NextAwait]_vars

\* the life cycle of the syncer: callers of Start, ForceSync and Close, and
\* the run loops
NextLife ==
  \/ \E p \in Starters : StartBegin(p)
  \/ \E p \in Starters : StartSend(p)
  \/ \E f \in Forcers : ForceSyncCall(f)
  \/ \E f \in Forcers : ForceSyncSend(f)
  \/ \E k \in Closers : CloseExit(k)
  \/ \E k \in Closers : CloseForceSync(k)
  \/ RunExit
  \/ RunSynchronise

SpecLife == InitGossip /\ [][NextLife]_vars

\* the syncer under either setting of AlwaysListen
InitListen ==
  /\ InitQueueVars
  /\ InitSyncState
  /\ AlwaysListen \in BOOLEAN
  /\ InitItemVars
  /\ InitFetchVars
  /\ InitWaitVars
  /\ InitValidVars

SpecListen == InitListen /\ [][NextGossip]_vars

(***************************************************************************)
(* Specification of an item queue                                          *)
(***************************************************************************)
InitItems ==
  /\ InitQueueVars
  /\ InitSyncVars
  /\ InitItemVars
  /\ InitFetchVars
  /\ InitWaitVars
  /\ InitValidVars

NextItems ==
  \/ \E c \in Callers : HandleItems(c)
  \/ Dispatch
  \/ \E id \in Items : Response(id)

SpecItems == InitItems /\ [][NextItems]_vars

(***************************************************************************)
(* Specification of the fetch of a layer's block ids                       *)
(***************************************************************************)
InitFetch ==
  /\ InitQueueVars
  /\ InitSyncVars
  /\ InitItemVars
  /\ InitFetchVars
  /\ InitWaitVars
  /\ InitValidVars

NextFetch ==
  \/ FetchHashes
  \/ RangeHashes
  \/ AskPeer

SpecFetch == InitFetch /\ [][NextFetch]_vars

(***************************************************************************)
(* Specification of shutdown: every blocked operation that can take a step *)
(* eventually takes it                                                     *)
(***************************************************************************)
InitShutdown ==
  /\ InitQueueVars
  /\ InitSyncVars
  /\ InitItemVars
  /\ InitFetchVars
  /\ InitWaitVars
  /\ InitValidVars

NextShutdown ==
  \/ Close
  \/ \E w \in Waiters : Block(w)
  \/ \E w \in Waiters : Deliver(w)
  \/ \E w \in Waiters : Unblock(w)

SpecShutdown ==
  /\ InitShutdown
  /\ [][NextShutdown]_vars
  /\ \A w \in Waiters : WF_vars(Unblock(w))

(***************************************************************************)
(* Specification of the validation of a block: any block of the bounded    *)
(* set is validated by fastValidation and by blockSyntacticValidation      *)
(***************************************************************************)
InitValid ==
  /\ InitQueueVars
  /\ InitSyncVars
  /\ InitItemVars
  /\ InitFetchVars
  /\ InitWaitVars
  /\ vblk \in CandidateBlocks
  /\ vfast = "none"
  /\ vsyn = "none"
  /\ vsteps = <<>>

NextValid ==
  \/ FastValidate
  \/ SyntacticValidate

SpecValid == InitValid /\ [][NextValid]_vars

(***************************************************************************)
(* Properties of the dependency queue                                      *)
(***************************************************************************)
\* nothing is running and nothing is left to fetch: no step of the worker or
\* of a client inside addDependencies is enabled
Quiescent ==
  /\ wpc = "idle"
  /\ queue = <<>>
  /\ \A c \in Clients : cpc[c] # "unlocked"

\* the blocks reachable from b over the view edges known so far, in 1..n steps
RECURSIVE Ancestors(_, _)
Ancestors(b, n) ==
  IF n = 0 THEN {}
  ELSE LET near == IF b \in known THEN blockView[b] ELSE {}
       IN near \cup UNION {Ancestors(a, n - 1) : a \in near}

AcyclicViews == \A b \in Blocks : b \notin Ancestors(b, NumBlocks)

\* the client jobs that went through addDependencies
Registered == {c \in Clients : cpc[c] \in {"waiting", "done"}}

\* C1: topological correctness.  While every block is fetched, valid and
\* admitted without error and the view edges are acyclic, a job's callback is
\* invoked at most once, only with true, and only after the finish callback of
\* each of its children has been invoked; once the queue has come to rest
\* every registered job has been called back exactly once.
C1_TopologicalCorrectness ==
  (~anyFail /\ AcyclicViews) =>
    /\ \A j \in Jobs : hist[j].n <= 1 /\ ~hist[j].f /\ ~hist[j].ooo
    /\ Quiescent => \A c \in Registered : hist[LayerJob(c)].n = 1

\* C2: failure propagation.  A job one of whose dependencies resolved with
\* false is never called back with true.
C2_FailurePropagation == \A j \in Jobs : ~hist[j].badTrue

\* C3: a job's callback is invoked at most once per registration and never
\* while the job is still registered as waiting on another hash.
C3_CallbackOnceAfterDeps == \A j \in Jobs : hist[j].n <= 1 /\ ~hist[j].early

\* C4: admission order.  No block is admitted to the mesh while one of its
\* view-edge parents is missing from the block store.
C4_AdmissionOrder == orphans = {}

\* C5: queue-state cleanup.  A hash that updateDependencies has relaxed has no
\* entry left in depMap, callbacks, visited or reverseDepMap, under its job id
\* or under its hash; when the queue is at rest and every registered job has
\* been called back, the four maps are empty.
C5_QueueStateCleanup ==
  /\ \A b \in settled :
       /\ BlockJob(b) \notin DOMAIN depMap /\ HashKey(b) \notin DOMAIN depMap
       /\ BlockJob(b) \notin DOMAIN callbacks /\ HashKey(b) \notin DOMAIN callbacks
       /\ b \notin visited
       /\ b \notin DOMAIN reverseDepMap
  /\ (Quiescent /\ \A c \in Registered : hist[LayerJob(c)].n >= 1) =>
       /\ DOMAIN depMap = {} /\ DOMAIN callbacks = {}
       /\ visited = {} /\ DOMAIN reverseDepMap = {}

\* job a is stored as waiting on hash b
WaitsOn(a, b) == BlockJob(a) \in DOMAIN depMap /\ b \in depMap[BlockJob(a)]

\* C6: a view-edge cycle does not deadlock.  The queue never comes to rest
\* with two blocks each stored as waiting on the other.
C6_CycleResolves ==
  Quiescent => ~(\E a, b \in Blocks : a # b /\ WaitsOn(a, b) /\ WaitsOn(b, a))

\* C7: self-reference is a hard error.  A block whose view edges contain its
\* own id is never admitted, and the queue never comes to rest with the block
\* stored as waiting on itself.
C7_SelfReferenceRejected ==
  /\ \A b \in known : b \in blockView[b] => b \notin stored
  /\ Quiescent => ~(\E b \in Blocks : WaitsOn(b, b))

(***************************************************************************)
(* Properties of the Syncer's gossip status                                *)
(***************************************************************************)
\* C9: the channel Await() returns is closed exactly when the gossip status
\* is done; no channel is closed twice; a transition from done to another
\* status publishes a channel that has never been published before, and every
\* channel published before stays closed.
C9_AwaitSemantics ==
  /\ (awaitCh \in closedChs) <=> (gossipSynced = done)
  /\ ~doubleClose
  /\ awaitCh \notin oldChs
  /\ oldChs \subseteq closedChs

\* the status is done on a second channel: the first was closed, replaced
\* by a fresh one on leaving done, and the fresh one was closed in turn
C9_Witness ==
  /\ gossipSynced = done
  /\ awaitCh \in closedChs
  /\ oldChs # {}

\* the place of a status in the sequence pending, inProgress2, done
Rank(st) == IF st = done THEN 2 ELSE IF st = inProgress2 THEN 1 ELSE 0

\* a step that keeps the status or moves it forward, to done only from
\* inProgress2
MovesForward ==
  /\ Rank(gossipSynced') >= Rank(gossipSynced)
  /\ (gossipSynced' = done /\ gossipSynced # done) => gossipSynced = inProgress2

\* the pcs of handleNotSynced
InNotSynced == {"ns_reset"} \cup AfterReset

\* C10 as stated: no step of handleNotSynced moves the gossip status back in
\* the sequence pending, inProgress2, done, and done is only entered from
\* inProgress2.
C10_Original ==
  [][(spc \in InNotSynced) => MovesForward]_vars

\* C10 amended: after handleNotSynced's first statement has set the status to
\* pending, no step of handleNotSynced moves the gossip status back in the
\* sequence pending, inProgress2, done, and done is only entered from
\* inProgress2.
C10_GossipMonotonicity ==
  [][(spc \in AfterReset) => MovesForward]_vars

\* a handleNotSynced that began with the status done has run to its end
C10_Witness ==
  /\ passTrace = <<pending, inProgress2, done>>
  /\ gossipSynced = done
  /\ oldChs # {}
  /\ spc = "idle"

(***************************************************************************)
(* Properties of an item queue                                             *)
(***************************************************************************)
\* the requests for an id that are in the batch or at a fetch worker
Outstanding(id) ==
  Cardinality({n \in DOMAIN ibatch : ibatch[n] = id}) + (IF id \in inflight THEN 1 ELSE 0)

\* C8: while an id is pending exactly one request for it is in the batch or in
\* flight, at most one request has been issued for it since it became
\* pending, no request is outstanding for an id nobody waits for, and the
\* callers one response completes all get one and the same result.
C8_Coalescing ==
  \A id \in Items :
    /\ ipending[id] # {} => Outstanding(id) = 1
    /\ ipending[id] = {} => Outstanding(id) = 0
    /\ reqs[id] <= 1
    /\ id \in inflight => reqs[id] = 1
    /\ \A c \in ipending[id] : id \in waitFor[c] /\ got[c][id] = NoResult
    /\ Cardinality(delivered[id]) <= 1
    /\ NoResult \notin delivered[id]

\* two callers wait for the same id and its single request is in flight
C8_Witness ==
  \E id \in Items :
    /\ Cardinality(ipending[id]) = 2
    /\ id \in inflight
    /\ reqs[id] = 1

(***************************************************************************)
(* Properties of a synchronise cycle                                       *)
(***************************************************************************)
\* C11 as stated: a synchronise call that begins with the gossip status
\* pending and latest + 1 >= current returns with the gossip status done and
\* processed = current.
C11_Original ==
  (cycStart = "weakPending" /\ cycEnd.from # "none")
    => (cycEnd.status = done /\ cycEnd.processed = cycEnd.current)

\* C11 amended: a synchronise call that begins with the gossip status pending
\* and latest + 1 >= current returns with the gossip status done, unless
\* shutdown was signalled or handleCurrentLayer returned an error; processed
\* does not exceed current when it returns.
C11_WeakSyncTransition ==
  (cycStart = "weakPending" /\ cycEnd.from # "none")
    => /\ (~cycEnd.closed /\ cycEnd.from # "ws_cur") => cycEnd.status = done
       /\ cycEnd.processed <= cycEnd.current

\* a call that began pending and weakly synced went through handleWeaklySynced
\* and returned with the status done and the current layer not processed
C11_Witness ==
  /\ cycStart = "weakPending"
  /\ cycEnd.from = "ws_done"
  /\ ~cycEnd.closed
  /\ cycEnd.status = done
  /\ cycEnd.processed < cycEnd.current

(***************************************************************************)
(* Properties of handleNotSynced's layer fetch                             *)
(***************************************************************************)
\* C16: at most one synchronise body is in progress at any time; the lock
\* is held exactly while a body is in progress (released on every exit
\* path); a synchronise call that finds the lock held returns at once: it
\* changes no state of the syncer and is gone afterwards, not queued.
DroppedLeavesState ==
  dropped' => /\ calls' = calls - 1
              /\ UNCHANGED <<svars, qvars, ivars, lvars, syncLock>>

C16_TryLock ==
  /\ [](~overlap /\ (syncLock <=> spc # "idle"))
  /\ [][DroppedLeavesState]_vars

\* a call was dropped while a body was in progress
C16_Witness == dropped /\ syncLock /\ spc # "idle" /\ ~overlap

\* C18: ListenToGossip() is true iff always_listen is set or the gossip
\* status is not pending: with always_listen set it is true in every state,
\* with it unset gossip is closed exactly while the status is pending.
C18_ListenToGossip ==
  /\ ListenToGossip <=> (AlwaysListen \/ gossipSynced # pending)
  /\ AlwaysListen => ListenToGossip
  /\ ~AlwaysListen => (~ListenToGossip <=> gossipSynced = pending)

\* always_listen is set and a synchronise pass has put the status to pending
C18_Witness ==
  /\ AlwaysListen
  /\ gossipSynced = pending
  /\ spc \in AfterReset
  /\ ListenToGossip

\* C17: after the shutdown signal every operation blocked on a tick or on
\* a dependency-queue callback eventually returns, with an error or a
\* negative result unless its channel already held a value.
Interrupted(w) ==
  /\ wst[w] = "returned"
  /\ \/ wres[w] \in {"exit", "received interrupt", "error", "false", "nil"}
     \/ wch[w] # "empty"

C17_ShutdownReturns ==
  \A w \in Waiters : (exitClosed /\ wst[w] = "blocked") ~> Interrupted(w)

\* what the claim C19 speaks of: a repeated id, an empty active set, an
\* atx_id that is the golden or the empty one
HasRepeat(list) ==
  \E i, j \in DOMAIN list : i # j /\ list[i] = list[j]

RepeatedTx == HasRepeat(vblk.TxIDs)
RepeatedAtx == vblk.hasActiveSet /\ HasRepeat(vblk.ActiveSet)
EmptyActiveSet == vblk.hasActiveSet /\ vblk.ActiveSet = <<>>
InvalidAtxId == vblk.ATXID \in {EmptyATXID, GoldenATXID}

\* C19 as stated: fastValidation rejects every block with a repeated tx id,
\* a repeated atx id in its active set, an empty active set, or an atx_id
\* equal to the golden or the empty ATX id.
C19_Original ==
  (vfast # "none" /\ (RepeatedTx \/ RepeatedAtx \/ EmptyActiveSet \/ InvalidAtxId))
    => vfast # "nil"

\* C19: fastValidation rejects every block with a repeated tx id or a
\* repeated atx id in its active set; blockSyntacticValidation rejects these
\* and also every block with an empty active set or an atx_id equal to the
\* golden or the empty ATX id, which fastValidation alone lets pass.
C19_DuplicateRejection ==
  /\ (vfast # "none" /\ (RepeatedTx \/ RepeatedAtx)) => vfast # "nil"
  /\ (vsyn # "none" /\ (RepeatedTx \/ RepeatedAtx \/ EmptyActiveSet \/ InvalidAtxId))
       => vsyn # "nil"
  /\ (vfast # "none" /\ vblk.eligible /\ ~RepeatedTx /\ ~RepeatedAtx)
       => vfast = "nil"

\* an eligible block with a repeated atx id and the golden atx_id has been
\* through both validations
C19_Witness ==
  /\ vblk.eligible
  /\ RepeatedAtx
  /\ ~RepeatedTx
  /\ vblk.ATXID = GoldenATXID
  /\ vfast = "errDupAtx"
  /\ vsyn = "errInvalidATXID"

\* C20: when the finish callback of a block returns an error, the failure
\* reaches every job waiting on the block: once the queue has come to rest
\* no job is left registered in reverseDepMap as waiting on that block.
C20_FinishFailureSurfaced ==
  Quiescent =>
    \A b \in cbFailed :
      b \in DOMAIN reverseDepMap => reverseDepMap[b] = <<>>

\* C21: handleBlock goes through every id of a fetched batch: the worker
\* leaves the loop over the batch only after the last id, so a block that is
\* missing or fails fast validation does not keep the later ids of the batch
\* from being resolved or handed to dependency handling.
LeavesLoopAfterLastId ==
  (wpc = "loop" /\ wpc' = "idle") => Tail(batch) = <<>>

C21_BatchFullyProcessed == [][LeavesLoopAfterLastId]_vars

\* C22: the callback of a layer job receives true, and syncLayer returns the
\* layer without error, only if none of the hashes the job waited on resolved
\* with false, whatever the order in which they resolve.
C22_LayerNeedsAllBlocks ==
  \A c \in Clients :
    hist[LayerJob(c)].t => ~hist[LayerJob(c)].badTrue

\* the job of client c is registered as waiting on some hash
InReverseDeps(c) ==
  \E h \in DOMAIN reverseDepMap : LayerJob(c) \in Range(reverseDepMap[h])

\* C23: when addDependencies has returned 'no pending' for a job, on_done(true)
\* has been invoked exactly once and no dependency set, reverse dependency or
\* callback of the job is left stored.
C23_NoPendingLeavesNothing ==
  \A c \in Clients :
    cpc[c] = "done" =>
      /\ hist[LayerJob(c)].n = 1
      /\ hist[LayerJob(c)].t
      /\ LayerJob(c) \notin DOMAIN depMap
      /\ ~InReverseDeps(c)
      /\ LayerJob(c) \notin DOMAIN callbacks

\* the ids of the batches of the fetch queue, in order
RECURSIVE Flat(_)
Flat(q) == IF q = <<>> THEN <<>> ELSE Head(q) \o Flat(Tail(q))

CountIn(list, x) == Cardinality({i \in DOMAIN list : list[i] = x})

\* the ids waiting to be fetched or under the worker's hands
PendingFetch == Flat(queue) \o batch

\* a step enqueues id only when id is not resident in the queue
EnqueuesNonResident ==
  \A id \in Blocks :
    CountIn(Flat(queue'), id) > CountIn(Flat(queue), id)
      => /\ ~inQueue(reverseDepMap, visited, id)
         /\ CountIn(Flat(queue'), id) = CountIn(Flat(queue), id) + 1

\* C24: a block id is enqueued for fetch at most once while it is resident
\* in the queue: no id is pending fetch twice, and a step enqueues an id
\* only if inQueue(id) was false, once, whether the id is repeated in one
\* child list or asked for by several jobs or concurrent calls.
C24_FetchedOnce ==
  /\ [](\A id \in Blocks : CountIn(PendingFetch, id) <= 1)
  /\ [][EnqueuesNonResident]_vars

\* a child list with a repeated id has been registered and the id is pending
\* fetch once, with two reverse dependencies of the same job
C24_Witness ==
  \E c \in Clients, id \in Blocks :
    /\ CountIn(children[c], id) = 2
    /\ CountIn(PendingFetch, id) = 1
    /\ id \in DOMAIN reverseDepMap
    /\ CountIn(reverseDepMap[id], LayerJob(c)) = 2

\* the next statement of client c is vq.depMap[jobId] = dependencys, which
\* addDependencies executes after vq.Unlock()
ClientWritesDepMapUnlocked(c) == cpc[c] = "unlocked" /\ cdeps[c] # {}

\* the next statement of the worker is the same write, in the
\* addDependencies called by handleBlockDependencies
WorkerWritesDepMapUnlocked == wpc = "store" /\ wdeps # {}

\* C25: every mutation of depMap, reverseDepMap, callbacks and visited is
\* made with the queue's mutex held: no state has two tasks about to write
\* the same map without the mutex.
C25_MapsUnderMutex ==
  ~(\E c \in Clients : ClientWritesDepMapUnlocked(c) /\ WorkerWritesDepMapUnlocked)

\* C26: no completion callback is invoked while the queue's mutex is held,
\* neither on the immediate path of addDependencies nor in the relaxation
\* of updateDependencies.
C26_CallbacksOutsideMutex == \A j \in Jobs : ~hist[j].locked

\* the positions of gossipSyncForOneFullLayer, from ticker.Subscribe() on
InGossipWindow == {"gs_wait1", "gs_sync1", "gs_wait2", "gs_sync2"}

\* C27: with always_listen unset, gossip is admitted from the moment
\* gossipSyncForOneFullLayer has subscribed to the ticker until it sets done,
\* the wait for the first tick included, and the status is inProgress2
\* between the two ticks.
C27_TwoTickWindow ==
  (~AlwaysListen /\ ~panicked /\ spc \in InGossipWindow) =>
    /\ ListenToGossip
    /\ spc \in {"gs_wait2", "gs_sync2"} => gossipSynced = inProgress2

\* C28: a layer validation started by the syncer runs with the
\* validating-layer mutex held and with the sentinel validatingLayer equal to
\* the layer being validated.
C28_ValidationSerialized ==
  validation.layer # validatingLayerNone =>
    /\ validation.held
    /\ validation.sentinel = validation.layer

\* C29: every read and write of the gossip status and of the await channel is
\* made while gossipLock is held; in particular Await reads the channel field
\* under the lock, so its read never runs beside a replacement or a close
C29_GossipLockHeld ==
  awaitRead.called => awaitRead.lock \in {"RLock", "Lock"}

\* C30: when the peer set is empty, getLayerFromNeighbors returns an error and
\* handleNotSynced aborts the attempt: the layer is neither recorded nor
\* validated, the gossip status stays pending, the two-tick window is not
\* entered and the synchronise lock is released for the next tick
NoPeersFetch(f) == f.out # "none" /\ f.peers = 0

NoPeersStepRecordsNothing ==
  NoPeersFetch(lastFetch') => UNCHANGED <<latest, processed, csl, subscribed, tickCh>>

C30_NoPeersAborts ==
  /\ [](NoPeersFetch(lastFetch) =>
          /\ lastFetch.out = "err"
          /\ ~lastFetch.zeroed
          /\ processed < lastFetch.layer
          /\ validation = NoValidation
          /\ gossipSynced = pending
          /\ spc = "idle"
          /\ spc \notin InGossipWindow
          /\ ~syncLock)
  /\ [][NoPeersStepRecordsNothing]_vars

\* the peers are gone when the second layer of an attempt is fetched
C30_Witness ==
  /\ NoPeersFetch(lastFetch)
  /\ lastFetch.layer = 2
  /\ processed = 1
  /\ spc = "idle"

\* C32: the weakly-synced path handles the layers after the processed one and
\* before the current one in increasing order; a failure for a layer of the
\* genesis epoch lets the loop go on with the next layer, a failure for a
\* later layer is a panic, after which no layer is handled
InGenesisEpoch(l) == l <= LastGenesisLayer

\* a step of the synchronise goroutine: not a tick, a Close, a gossip block
\* or a call of synchronise
SyncerStep == UNCHANGED <<current, exitClosed, latest, calls>>

WeakLayerHandled ==
  (spc = "ws_layers" /\ csl < current /\ ~exitClosed /\ SyncerStep) =>
     \/ /\ validation' = [layer |-> csl, sentinel |-> csl, held |-> TRUE]
        /\ processed' = csl
        /\ csl' = csl + 1
        /\ spc' = "ws_layers"
        /\ ~panicked'
     \/ /\ InGenesisEpoch(csl)
        /\ validation' = NoValidation
        /\ processed' = processed
        /\ csl' = csl + 1
        /\ spc' = "ws_layers"
        /\ ~panicked'
     \/ /\ ~InGenesisEpoch(csl)
        /\ validation' = NoValidation
        /\ panicked'
        /\ UNCHANGED <<processed, csl, latest, gossipSynced>>

WeakLoopStartsAfterProcessed ==
  (spc = "ws_enter" /\ spc' = "ws_layers") => csl' = processed + 1 /\ csl' < current

NothingAfterPanic == ~panicked

C32_WeakLayersInOrder ==
  /\ [][WeakLayerHandled]_vars
  /\ [][WeakLoopStartsAfterProcessed]_vars
  /\ [][NothingAfterPanic]_vars
  /\ [](spc = "ws_layers" => processed < csl /\ csl <= current)

\* the genesis layer 1 failed and the loop went on to layer 2
C32_Witness ==
  /\ spc = "ws_layers"
  /\ csl = 2
  /\ processed = 0
  /\ current > 2
  /\ ~panicked

\* layer 1 was validated and the failure of layer 2 was fatal
C32_WitnessPanic ==
  /\ panicked
  /\ spc = "ws_layers"
  /\ csl = 2
  /\ processed = 1

\* C33: synchronise with processed = current sets the status to done and
\* returns with no layer fetched, recorded or validated; otherwise it takes the
\* weakly-synced path when latest + 1 >= current and handleNotSynced from
\* processed + 1 when not, and one invocation never runs both paths
WeakPath == {"ws_enter", "ws_layers", "ws_cur", "ws_done"}

NotSyncedPath == {"ns_reset", "ns_loop", "gs_wait1", "gs_sync1", "gs_wait2", "gs_sync2"}

\* the step in which a synchronise call takes the lock
SynchroniseBegins == calls' = calls - 1 /\ ~dropped'

SynchroniseBranch ==
  SynchroniseBegins =>
    IF current = processed
    THEN /\ gossipSynced' = done
         /\ spc' = "idle"
         /\ ~syncLock'
         /\ validation' = NoValidation
         /\ lastFetch' = NoFetch
         /\ UNCHANGED <<processed, latest, csl, subscribed>>
    ELSE IF latest + 1 >= current
         THEN spc' = "ws_enter" /\ UNCHANGED <<gossipSynced, processed, latest>>
         ELSE spc' = "ns_reset" /\ csl' = processed + 1
                /\ UNCHANGED <<gossipSynced, processed, latest>>

OnePathPerInvocation ==
  /\ spc \in WeakPath => spc' \in WeakPath \cup {"idle"}
  /\ spc \in NotSyncedPath => spc' \in NotSyncedPath \cup {"idle"}

C33_SynchroniseBranches ==
  /\ [][SynchroniseBranch]_vars
  /\ [][OnePathPerInvocation]_vars
  /\ [](spc \in WeakPath \cup NotSyncedPath \cup {"idle"})

\* a synchronise call found layer 2 processed and current, set the status to
\* done and returned
C33_Witness ==
  /\ spc = "idle"
  /\ cycEnd.from = "start"
  /\ cycEnd.status = done
  /\ cycEnd.current = 2
  /\ cycEnd.processed = 2
  /\ current = 2
  /\ ~syncLock

\* C34: blockSyntacticValidation runs the atx_id check, fast validation, the
\* fetch of the ref block and of the referenced ATXs, data availability and
\* view validation in this order and stops at the first failing step, so a
\* block that fails the atx_id check or fast validation causes no fetch of
\* its ref block or ATXs
FetchRequests == {"fetchRefBlock", "HandleAtxs"}

StepRank ==
  [atx_id |-> 1, fastValidation |-> 2, fetchRefBlock |-> 3, HandleAtxs |-> 4,
   dataAvailability |-> 5, validateBlockView |-> 6]

C34_ValidationOrder ==
  vsyn # "none" =>
    /\ \A i, j \in DOMAIN vsteps : i < j => StepRank[vsteps[i]] < StepRank[vsteps[j]]
    /\ (InvalidAtxId \/ fastValidation(vblk) # "nil")
         => Range(vsteps) \cap FetchRequests = {}

\* C35: registering a job with addDependencies never discards the pending
\* state of another job: a job id that has a stored callback and a stored
\* dependency set keeps that callback, and its dependency set only shrinks,
\* until the callback is invoked
PendingJobs == DOMAIN callbacks \cap DOMAIN depMap

PendingStateKept ==
  \A j \in PendingJobs :
    /\ j \in DOMAIN callbacks' => callbacks'[j] = callbacks[j]
    /\ j \in DOMAIN depMap' => depMap'[j] \subseteq depMap[j]

C35_RegistrationKeepsPending == [][PendingStateKept]_vars

\* C36: whenever handleNotSynced returns without having set the status to
\* done, the status is pending: a failed pass never leaves the status at
\* inProgress2, so IsHareSynced is not left true by a failed pass
IsSynced == weaklySynced(current) /\ getGossipBufferingStatus = done

IsHareSynced == getGossipBufferingStatus = inProgress2 \/ IsSynced

C36_FailedPassIsPending ==
  (spc = "idle" /\ cycEnd.from \in NotSyncedPath /\ cycEnd.status # done) =>
     /\ cycEnd.status = pending
     /\ ~(IsHareSynced /\ ~IsSynced)

\* C37: every ticker subscription taken by gossipSyncForOneFullLayer is
\* released on every return path: once the pass has returned, the channel
\* obtained from Subscribe has been unsubscribed
C37_SubscriptionReleased ==
  spc \notin InGossipWindow => ~subscribed

\* C38: GetBlocks returns nil only if every requested block was resolved: when
\* the job's callback receives false, or shutdown interrupts the wait, it
\* returns an error, as syncLayer does
ReturnedNil(w) == wst[w] = "returned" /\ wres[w] \in {"ok", "nil"}

C38_GetBlocksReportsFailure ==
  \A w \in Waiters :
    (wop[w] \in {"getBlocks", "syncLayer"} /\ ReturnedNil(w)) => wch[w] = "true"

\* C39: Start is idempotent: after any sequence of Start calls at most one
\* run loop is active, a Start after Close starts none, and once the exit
\* signal is raised the run loop launches no further synchronise
C39_StartIdempotent ==
  /\ runLoops <= 1
  /\ ~lateRun
  /\ ~lateSync

\* C40: ForceSync and Close are safe in any order: ForceSync after or beside
\* Close neither panics by sending on the closed forceSync channel nor blocks
\* forever, and a second Close does not panic by closing a closed channel
C40_ForceSyncCloseSafe ==
  crash = "none"

\* C12: when the only peer does not reply to the layer-hash request,
\* getLayerFromNeighbors returns an error, the layer is not recorded as a
\* zero-block layer and not validated, and handleNotSynced returns with the
\* layer unprocessed.
C12_PeerTimeout ==
  (lastFetch.out # "none" /\ lastFetch.peers = 1 /\ lastFetch.replies = 0)
    => /\ lastFetch.out = "err"
       /\ ~lastFetch.zeroed
       /\ processed < lastFetch.layer
       /\ spc = "idle"

\* C13 as stated: when at least one peer replies and every reply is the
\* empty-layer hash, getLayerFromNeighbors returns an empty layer,
\* handleNotSynced records the layer as a zero-block layer, processed becomes
\* the layer and the loop goes on with the next layer.
C13_Original ==
  (lastFetch.out # "none" /\ lastFetch.replies >= 1 /\ lastFetch.hashes = 0)
    => /\ lastFetch.out = "empty"
       /\ lastFetch.zeroed
       /\ processed = lastFetch.layer
       /\ latest >= lastFetch.layer
       /\ csl = lastFetch.layer + 1
       /\ spc = "ns_loop"

\* C13 amended: when at least one peer replies and every reply is the
\* empty-layer hash, getLayerFromNeighbors returns an empty layer; if
\* SetZeroBlockLayer succeeds, the layer is recorded as a zero-block layer,
\* processed becomes the layer and the loop goes on with the next layer; if it
\* returns an error, handleNotSynced returns with the layer unprocessed.
C13_EmptyLayer ==
  (lastFetch.out # "none" /\ lastFetch.replies >= 1 /\ lastFetch.hashes = 0)
    => /\ lastFetch.out = "empty"
       /\ IF lastFetch.zeroed
          THEN /\ processed = lastFetch.layer
               /\ latest >= lastFetch.layer
               /\ csl = lastFetch.layer + 1
               /\ spc = "ns_loop"
          ELSE /\ processed < lastFetch.layer
               /\ csl = lastFetch.layer
               /\ spc = "idle"

\* one of two peers replied, with the empty-layer hash, and the layer was
\* recorded as empty and validated
C13_Witness ==
  /\ lastFetch.peers = 2
  /\ lastFetch.replies = 1
  /\ lastFetch.hashes = 0
  /\ lastFetch.zeroed
  /\ processed = lastFetch.layer

(***************************************************************************)
(* Properties of fetchLayerBlockIds                                        *)
(***************************************************************************)
NoDuplicates(sq) == \A i, j \in DOMAIN sq : i # j => sq[i] # sq[j]

\* C14: for every hash of the map at most one reply is taken, from a peer
\* that advertised the hash, the peers of a hash being asked in order until
\* one replies; the ids returned are the union of the ids of the replies
\* taken, each id once; when the function returns without error every hash
\* has a reply taken or all its peers asked.
C14_UnionPerHash ==
  /\ \A a \in facc : a.hash \in DOMAIN fm /\ a.peer \in Range(fm[a.hash])
  /\ \A a, b \in facc : a.hash = b.hash => a = b
  /\ Cardinality(facc) <= Cardinality(DOMAIN fm)
  /\ \A q \in fasked : q[1] \in DOMAIN fm /\ q[2] \in Range(fm[q[1]])
  /\ \A a \in facc : \A i \in DOMAIN fm[a.hash] :
       <<a.hash, fm[a.hash][i]>> \in fasked
         => \E j \in DOMAIN fm[a.hash] : j >= i /\ fm[a.hash][j] = a.peer
  /\ ferr = "nil" =>
       /\ NoDuplicates(fids)
       /\ Range(fids) = ftaken
  /\ (fpc = "done" /\ ferr = "nil") =>
       \A h \in DOMAIN fm :
         \/ \E a \in facc : a.hash = h
         \/ \A p \in Range(fm[h]) : <<h, p>> \in fasked

\* two hashes were advertised, a reply was taken for each, the second reply
\* repeated an id of the first and the function returned two ids
C14_Witness ==
  /\ fpc = "done"
  /\ ferr = "nil"
  /\ Cardinality(DOMAIN fm) = 2
  /\ Cardinality(facc) = 2
  /\ fdup
  /\ Len(fids) = 2

\* C15: the ids of a reply are taken only if the hash computed over them is
\* the hash the peer advertised.
C15_HashIntegrity ==
  \A a \in facc : a.match

\* C31: the peers of a hash are asked in order; a peer that times out or
\* answers nil is skipped and the next peer of the hash is asked; after the
\* first reply with ids no further peer of the hash is asked; a hash whose
\* peers all time out adds no ids and does not fail the call; the exit
\* signal taken during a wait makes the call return an error and no ids.
IndexOf(sq, x) == CHOOSE i \in DOMAIN sq : sq[i] = x

AskedOf(h) == {i \in DOMAIN fm[h] : <<h, fm[h][i]>> \in fasked}

\* a step of the peer loop that stays in the loop is the skip of one peer
SkippedPeerStep ==
  (fpc = "peer" /\ fpeers # <<>> /\ fpc' = "peer") =>
     /\ fpeers' = Tail(fpeers)
     /\ <<fh, Head(fpeers)>> \in fasked'
     /\ UNCHANGED <<fids, ferr, facc, ftaken, fh>>

C31_TimeoutSkipsPeer ==
  /\ [](/\ \A h \in DOMAIN fm : \E k \in 0..Len(fm[h]) : AskedOf(h) = 1..k
        /\ \A a \in facc : \A i \in AskedOf(a.hash) : i <= IndexOf(fm[a.hash], a.peer)
        /\ (fpc = "done" /\ ferr = "nil") =>
             \A h \in DOMAIN fm :
               \/ \E a \in facc : a.hash = h
               \/ AskedOf(h) = DOMAIN fm[h]
        /\ ferr = "nil" => Range(fids) = ftaken
        /\ (facc = {} /\ ferr = "nil") => fids = <<>>
        /\ ferr = "exit" => fpc = "done" /\ fids = <<>>)
  /\ [][SkippedPeerStep]_vars

\* the first peer of a hash was asked and skipped, the second peer of the
\* hash gave the ids the call returned
C31_Witness ==
  /\ fpc = "done"
  /\ ferr = "nil"
  /\ fids # <<>>
  /\ \E h \in DOMAIN fm :
       /\ Len(fm[h]) = 2
       /\ AskedOf(h) = {1, 2}
       /\ \E a \in facc : a.hash = h /\ a.peer = fm[h][2]

====
